---- MODULE Spec2Model ----
(***************************************************************************)
(* A model of the protocol adapters of digital.vasic.filesystem: the path  *)
(* sandboxer (resolvePath / resolveURL), the per-adapter connection state  *)
(* machine (Connect / Disconnect / IsConnected) and the file and directory *)
(* operations of the Local, SMB, FTP, NFS and WebDAV clients.              *)
(*                                                                         *)
(* Strings are sequences of one-character strings, so that the string      *)
(* functions of the Go standard library the code calls (filepath.Clean,    *)
(* strings.ReplaceAll, filepath.Join, filepath.Dir, URL.String) are       *)
(* computed character by character, as the library computes them.         *)
(***************************************************************************)
EXTENDS Integers, Sequences, FiniteSets, TLC

(***************************************************************************)
(* Bounds of the model.                                                    *)
(***************************************************************************)
\* Longest caller path enumerated exhaustively by the sandboxer specification.
MaxLen == 6

\* The number of sessions a server accepts at a time.
MaxSessions == 2

\* The deepest node the backend stores, counted in path elements from its root.
MaxDepth == 3

\* Characters the enumerated caller paths are built from.
Alphabet == {".", "/", "a"}

(***************************************************************************)
(* Strings.                                                                *)
(***************************************************************************)
\* All strings over Alphabet of length 0..n.
StringsUpTo(n) == UNION {[1..k -> Alphabet] : k \in 0..n}

\* strings.Contains(s, sub)
Contains(s, sub) ==
  \E i \in 1..(Len(s) - Len(sub) + 1) : SubSeq(s, i, i + Len(sub) - 1) = sub

\* strings.HasPrefix(s, prefix)
HasPrefix(s, prefix) ==
  Len(s) >= Len(prefix) /\ SubSeq(s, 1, Len(prefix)) = prefix

DotDot == <<".", ".">>

\* strings.ReplaceAll(s, "..", ""): the occurrences are found left to right and
\* do not overlap; the text between them is copied unchanged.
RECURSIVE ReplaceAllDotDot(_)
ReplaceAllDotDot(s) ==
  IF Len(s) < 2 THEN s
  ELSE IF s[1] = "." /\ s[2] = "."
       THEN ReplaceAllDotDot(SubSeq(s, 3, Len(s)))
       ELSE <<s[1]>> \o ReplaceAllDotDot(Tail(s))

(***************************************************************************)
(* path/filepath of the Go standard library (Unix), as called by the       *)
(* adapters.                                                               *)
(***************************************************************************)
\* The backtracking step of Clean on a ".." element: drop the last element of
\* out, down to (and including) its separator, never below dotdot.
RECURSIVE CleanBacktrack(_, _, _)
CleanBacktrack(out, w, dotdot) ==
  IF w > dotdot /\ out[w + 1] # "/"
  THEN CleanBacktrack(out, w - 1, dotdot)
  ELSE SubSeq(out, 1, w)

\* Index of the first "/" of path at or after r, Len(path) + 1 if none.
RECURSIVE ElementEnd(_, _)
ElementEnd(path, r) ==
  IF r > Len(path) \/ path[r] = "/" THEN r ELSE ElementEnd(path, r + 1)

\* The loop of filepath.Clean: r is the next character to read (1-based), out
\* the output so far, dotdot the length of the prefix that ".." cannot remove.
RECURSIVE CleanLoop(_, _, _, _, _)
CleanLoop(path, r, out, dotdot, rooted) ==
  LET n == Len(path) IN
  IF r > n THEN out
  ELSE IF path[r] = "/"
       THEN CleanLoop(path, r + 1, out, dotdot, rooted)
  ELSE IF path[r] = "." /\ (r = n \/ path[r + 1] = "/")
       THEN CleanLoop(path, r + 1, out, dotdot, rooted)
  ELSE IF path[r] = "." /\ path[r + 1] = "." /\ (r + 1 = n \/ path[r + 2] = "/")
       THEN IF Len(out) > dotdot
            THEN CleanLoop(path, r + 2,
                           CleanBacktrack(out, Len(out) - 1, dotdot),
                           dotdot, rooted)
            ELSE IF ~rooted
                 THEN LET o2 == (IF Len(out) > 0 THEN out \o <<"/">> ELSE out)
                                \o DotDot
                      IN  CleanLoop(path, r + 2, o2, Len(o2), rooted)
                 ELSE CleanLoop(path, r + 2, out, dotdot, rooted)
  ELSE LET o1 == IF (rooted /\ Len(out) # 1) \/ (~rooted /\ Len(out) # 0)
                 THEN out \o <<"/">> ELSE out
           e  == ElementEnd(path, r)
       IN  CleanLoop(path, e, o1 \o SubSeq(path, r, e - 1), dotdot, rooted)

\* filepath.Clean(path)
Clean(path) ==
  IF path = <<>> THEN <<".">>
  ELSE LET rooted == path[1] = "/"
           out == IF rooted
                  THEN CleanLoop(path, 2, <<"/">>, 1, TRUE)
                  ELSE CleanLoop(path, 1, <<>>, 0, FALSE)
       IN  IF out = <<>> THEN <<".">> ELSE out

\* filepath.Join(a, b): the elements from the first non-empty one on, joined
\* by "/" and cleaned; the empty string if both are empty.
Join(a, b) ==
  IF a # <<>> THEN Clean(a \o <<"/">> \o b)
  ELSE IF b # <<>> THEN Clean(b)
  ELSE <<>>

\* Index of the last "/" of path at or before i, 0 if none.
RECURSIVE LastSlash(_, _)
LastSlash(path, i) ==
  IF i = 0 \/ path[i] = "/" THEN i ELSE LastSlash(path, i - 1)

\* filepath.Dir(path): everything up to the last separator, cleaned.
Dir(path) == Clean(SubSeq(path, 1, LastSlash(path, Len(path))))

\* Length of path without its trailing separators (one character is kept).
RECURSIVE TrimmedLen(_, _)
TrimmedLen(path, i) ==
  IF i > 1 /\ path[i] = "/" THEN TrimmedLen(path, i - 1) ELSE i

\* filepath.Base(path): the last element, trailing separators removed.
Base(path) ==
  IF path = <<>> THEN <<".">>
  ELSE LET t == SubSeq(path, 1, TrimmedLen(path, Len(path)))
           b == SubSeq(t, LastSlash(t, Len(t)) + 1, Len(t))
       IN  IF b = <<>> THEN <<"/">> ELSE b

\* The elements of a path: its maximal runs of non-separator characters.
RECURSIVE Segments(_)
Segments(path) ==
  IF path = <<>> THEN <<>>
  ELSE IF path[1] = "/" THEN Segments(Tail(path))
  ELSE LET e == ElementEnd(path, 1)
       IN  <<SubSeq(path, 1, e - 1)>> \o Segments(SubSeq(path, e, Len(path)))

\* Whether a path has a ".." element.
HasDotDotSegment(path) ==
  \E i \in 1..Len(Segments(path)) : Segments(path)[i] = DotDot

(***************************************************************************)
(* Configuration of the adapters.                                          *)
(***************************************************************************)
\* Base directories the sandboxer is exercised with: "/b" and "/data".
BaseB == <<"/", "b">>
BaseData == <<"/", "d", "a", "t", "a">>
PathBases == {BaseB, BaseData}

\* Scheme and host of the WebDAV base URL, as URL.String() prints them.
URLPrefix == <<"h", ":", "/", "/", "s">>

\* The caller path and the resolved path of the path sandboxing scenario.
TraversalPath ==
  <<".", ".", "/", ".", ".", "/", ".", ".", "/",
    "e", "t", "c", "/", "p", "a", "s", "s", "w", "d">>
EtcPasswd == <<"/", "e", "t", "c", "/", "p", "a", "s", "s", "w", "d">>

(***************************************************************************)
(* The path sandboxer of each adapter.                                     *)
(***************************************************************************)
\* A resolver without its second pass: the cleaned path is joined as it is.
Local_resolvePath_NoStrip(basePath, path) == Join(basePath, Clean(path))

\* local.Client.resolvePath, basePath being c.basePath.
Local_resolvePath(basePath, path) ==
  LET cleanPath == Clean(path)
      stripped  == IF Contains(cleanPath, DotDot)
                   THEN ReplaceAllDotDot(cleanPath) ELSE cleanPath
  IN  Join(basePath, stripped)

\* A resolver without its second pass: the cleaned path is joined as it is.
NFS_resolvePath_NoStrip(mountPoint, path) == Join(mountPoint, Clean(path))

\* nfs.Client.resolvePath, mountPoint being c.mountPoint.
NFS_resolvePath(mountPoint, path) ==
  LET cleanPath == Clean(path)
      stripped  == IF Contains(cleanPath, DotDot)
                   THEN ReplaceAllDotDot(cleanPath) ELSE cleanPath
  IN  Join(mountPoint, stripped)

\* net/url escaping of one character of a URL path: letters, ".", "/" and the
\* other unreserved characters are kept, a space or a percent sign is encoded.
EscapeChar(ch) ==
  IF ch = " " THEN <<"%", "2", "0">>
  ELSE IF ch = "%" THEN <<"%", "2", "5">>
  ELSE <<ch>>

RECURSIVE EscapePath(_)
EscapePath(path) ==
  IF path = <<>> THEN <<>> ELSE EscapeChar(path[1]) \o EscapePath(Tail(path))

\* URL.String() of a URL with a scheme and a host: a "/" is put before a path
\* that does not start with one.
URLString(urlPath) ==
  URLPrefix
    \o (IF urlPath # <<>> /\ urlPath[1] # "/" THEN <<"/">> ELSE <<>>)
    \o EscapePath(urlPath)

\* webdav.Client.resolveURL, basePath being c.baseURL.Path.
WebDAV_resolveURL(basePath, path) ==
  LET cleanPath == Clean(path)
      stripped  == IF Contains(cleanPath, DotDot)
                   THEN ReplaceAllDotDot(cleanPath) ELSE cleanPath
  IN  URLString(Join(basePath, stripped))

\* ftp.Client.resolvePath, cfgPath being c.config.Path.
FTP_resolvePath(cfgPath, path) ==
  IF cfgPath # <<>> THEN cfgPath \o <<"/">> \o path ELSE path

\* The SMB client has no resolver: every operation hands the caller's path to
\* the share as it is.
SMB_path(path) == path

(***************************************************************************)
(* State.                                                                  *)
(***************************************************************************)
VARIABLES
  reqPath,      \* sandboxer: the caller's relative path
  reqBase,      \* sandboxer: the configured base path of the adapter
  resolver,     \* sandboxer: the adapter whose resolver ran, "none" before
  resolved,     \* sandboxer: the path or URL handed to the backend
  proto,        \* the protocol of the client under test (GetProtocol)
  cfgPath,      \* config.Path of the FTP and WebDAV clients ("" or "/b")
  connected,    \* Client.connected (Local, FTP, NFS, WebDAV)
  mounted,      \* nfs.Client.mounted
  client,       \* ftp.Client.client: Nil or a session handle
  conn,         \* smb.Client.conn: Nil or a transport handle
  session,      \* smb.Client.session: Nil or a session handle
  share,        \* smb.Client.share: Nil or a share handle
  procMounts,   \* environment: whether /proc/mounts can be opened
  kernelMount,  \* environment: whether the NFS export is mounted
  openSessions, \* backend: sessions this client opened and has not closed
  dirs,         \* backend: the directories that exist (absolute paths)
  files,        \* backend: the files that exist, path -> content
  last,         \* the last call: operation, arguments, error, cause
  ret,          \* the value the last call returned
  calls,        \* the backend calls the last call made, in order
  multistatus,  \* parser: a multi-status body and what ListDirectory made of it
  factory,      \* factory: a descriptor and what CreateClient returned for it
  pending       \* a second caller's operation between its check and its use

pathVars == <<reqPath, reqBase, resolver, resolved>>
pureVars == <<multistatus, factory, pending>>
clientVars == <<connected, mounted, client, conn, session, share>>
backendVars == <<kernelMount, openSessions, dirs, files>>
lifeVars == <<proto, cfgPath, connected, mounted, client, conn, session, share,
              procMounts, kernelMount, openSessions, dirs, files,
              last, ret, calls>>
vars == <<reqPath, reqBase, resolver, resolved,
          proto, cfgPath, connected, mounted, client, conn, session, share,
          procMounts, kernelMount, openSessions, dirs, files,
          last, ret, calls, multistatus, factory, pending>>

(***************************************************************************)
(* Values.                                                                 *)
(***************************************************************************)
Protocols == {"local", "smb", "ftp", "nfs", "webdav"}

\* A nil handle, and the handle of an open connection.
Nil == "nil"
Handle == "handle"

\* A nil error.
NoErr == "nil"
NotConnected == "not connected"

\* The root of the backend's name space and the adapters' base directory.
Root == <<"/">>
BasePath == BaseB

\* File contents: an empty file and two contents of different sizes.
Empty == <<>>
Data == {<<"x">>, <<"y", "y">>}

\* The caller paths the operations are called with: "f", "d", "d/f", "../f".
CallerPaths ==
  { <<"f">>, <<"d">>, <<"d", "/", "f">>, <<".", ".", "/", "f">> }

\* The paths directories are listed with: the caller paths and ".", the
\* base directory itself.
ListPaths == CallerPaths \cup { <<".">> }

\* The keys of the settings of a descriptor, a key that is not in the map,
\* and a nil settings map.
SettingKeys ==
  {"host", "port", "share", "username", "password", "domain", "path",
   "mount_point", "options", "url", "base_path"}
Missing == [type |-> "missing", val |-> 0]
NoSettings == [key \in SettingKeys |-> Missing]

\* A nil client, and what a constructor or the factory returns when it
\* returns one with an error (a list of the parts of its message).
NilClient ==
  [protocol |-> Nil, config |-> [Protocol |-> Nil],
   connected |-> FALSE, mounted |-> FALSE, client |-> Nil,
   conn |-> Nil, session |-> Nil, share |-> Nil]
Refused(err) == [panic |-> FALSE, err |-> err, client |-> NilClient]

\* No body was parsed yet, and no client was asked of the factory yet.
NoListing == [fullURL |-> <<>>, records |-> <<>>, body |-> <<>>, out |-> <<>>]
NoFactory ==
  [goos |-> "linux", created |-> FALSE,
   descriptor |-> [Protocol |-> "", Settings |-> NoSettings],
   out |-> Refused(<<>>), supported |-> <<>>]

\* No operation of a second caller is between its check and its use.
NoPending == [op |-> "none", path |-> <<>>]

\* What a call returns besides its error.
NoRet ==
  [exists |-> FALSE, data |-> Empty, entries |-> {}, info |-> {}, status |-> 0,
   value |-> Nil]

\* The state of a client after construction, and of its backend: the base
\* directory exists or not, nothing is connected, no call was made.
InitClient ==
  /\ connected = FALSE
  /\ mounted = FALSE
  /\ client = Nil
  /\ conn = Nil
  /\ session = Nil
  /\ share = Nil

InitLast ==
  [op |-> "new", args |-> <<>>, err |-> NoErr, cause |-> NoErr,
   errs |-> <<>>, dropped |-> <<>>]

(***************************************************************************)
(* The sandboxer specification: a caller path is drawn from all strings    *)
(* over Alphabet up to MaxLen (and the path of the traversal scenario), a  *)
(* base from PathBases, and one adapter's resolver is applied.             *)
(***************************************************************************)
CallerPathInputs == StringsUpTo(MaxLen) \cup {TraversalPath}

InitPath ==
  /\ reqPath \in CallerPathInputs
  /\ reqBase \in PathBases \cup {<<>>}
  /\ resolver = "none"
  /\ resolved = <<>>
  /\ proto = "local"
  /\ cfgPath = <<>>
  /\ InitClient
  /\ procMounts = TRUE
  /\ kernelMount = FALSE
  /\ openSessions = 0
  /\ dirs = {<<>>}
  /\ files = <<>>
  /\ last = InitLast
  /\ ret = NoRet
  /\ calls = <<>>
  /\ multistatus = NoListing
  /\ factory = NoFactory
  /\ pending = NoPending

\* The Local client cannot be connected with an empty base path (Connect
\* stats it), so its resolver runs with a non-empty base only.
ResolveLocal ==
  /\ resolver = "none"
  /\ reqBase # <<>>
  /\ resolver' = "local"
  /\ resolved' = Local_resolvePath(reqBase, reqPath)
  /\ UNCHANGED <<reqPath, reqBase>>
  /\ UNCHANGED <<lifeVars, pureVars>>

\* NewNFSClient rejects an empty mount point.
ResolveNFS ==
  /\ resolver = "none"
  /\ reqBase # <<>>
  /\ resolver' = "nfs"
  /\ resolved' = NFS_resolvePath(reqBase, reqPath)
  /\ UNCHANGED <<reqPath, reqBase>>
  /\ UNCHANGED <<lifeVars, pureVars>>

\* The WebDAV base URL may have an empty path.
ResolveWebDAV ==
  /\ resolver = "none"
  /\ resolver' = "webdav"
  /\ resolved' = WebDAV_resolveURL(reqBase, reqPath)
  /\ UNCHANGED <<reqPath, reqBase>>
  /\ UNCHANGED <<lifeVars, pureVars>>

\* The FTP base directory may be empty.
ResolveFTP ==
  /\ resolver = "none"
  /\ resolver' = "ftp"
  /\ resolved' = FTP_resolvePath(reqBase, reqPath)
  /\ UNCHANGED <<reqPath, reqBase>>
  /\ UNCHANGED <<lifeVars, pureVars>>

ResolveSMB ==
  /\ resolver = "none"
  /\ reqBase = <<>>
  /\ resolver' = "smb"
  /\ resolved' = SMB_path(reqPath)
  /\ UNCHANGED <<reqPath, reqBase>>
  /\ UNCHANGED <<lifeVars, pureVars>>

NextPath ==
  \/ ResolveLocal
  \/ ResolveNFS
  \/ ResolveWebDAV
  \/ ResolveFTP
  \/ ResolveSMB

SpecPath == InitPath /\ [][NextPath]_vars

(***************************************************************************)
(* The backend file tree and the os package calls on it (Local and NFS).   *)
(* A node of the tree is named by the sequence of the elements of its      *)
(* absolute path (the root by the empty sequence); a tree is a record      *)
(* [dirs, files]; every call returns an error kind (NoErr or an errno) and *)
(* the tree it leaves.                                                     *)
(***************************************************************************)
Tree == [dirs |-> dirs, files |-> files]

\* The node an absolute path names: the path is resolved lexically.
Node(path) == Segments(Clean(<<"/">> \o path))

\* The parent of a node and its proper ancestors.
Parent(k) == SubSeq(k, 1, Len(k) - 1)
Ancestors(k) == {SubSeq(k, 1, i) : i \in 0..(Len(k) - 1)}

Nodes(t) == t.dirs \cup DOMAIN t.files
IsUnder(q, k) == Len(q) >= Len(k) /\ SubSeq(q, 1, Len(k)) = k
\* Everything below a node, at any depth.
Children_Deep(t, k) == {q \in Nodes(t) : Len(q) > Len(k) /\ IsUnder(q, k)}

Children(t, k) == {q \in Nodes(t) : Len(q) = Len(k) + 1 /\ IsUnder(q, k)}

\* The tree with the content of file k set.
WithFile(t, k, content) ==
  [t EXCEPT !.files = [q \in DOMAIN t.files \cup {k} |->
                         IF q = k THEN content ELSE t.files[q]]]

\* The tree without the nodes in gone.
Without(t, gone) ==
  [dirs  |-> t.dirs \ gone,
   files |-> [q \in DOMAIN t.files \ gone |-> t.files[q]]]

\* The error of a lookup of k: nil, ENOTDIR below a file, ENOENT otherwise.
LookupErr(t, k) ==
  IF k \in Nodes(t) THEN NoErr
  ELSE IF \E a \in Ancestors(k) : a \in DOMAIN t.files THEN "ENOTDIR"
  ELSE "ENOENT"

\* os.Stat(path)
OsStat(t, path, fault) ==
  [err |-> IF fault THEN "EACCES" ELSE LookupErr(t, Node(path)), tree |-> t]

\* os.Open(path)
OsOpen(t, path) == [err |-> LookupErr(t, Node(path)), tree |-> t]

\* A MkdirAll that creates one level only, as os.Mkdir does.
OsMkdirAll_OneLevel(t, path) ==
  LET k == Node(path) IN
  IF k \in Nodes(t) THEN [err |-> "EEXIST", tree |-> t]
  ELSE IF Parent(k) \notin t.dirs THEN [err |-> "ENOENT", tree |-> t]
  ELSE [err |-> NoErr, tree |-> [t EXCEPT !.dirs = t.dirs \cup {k}]]

\* os.MkdirAll(path, 0755): nil if path is a directory, ENOTDIR if it or one
\* of its ancestors is a file, else it and its missing ancestors are created.
OsMkdirAll(t, path) ==
  LET k == Node(path) IN
  IF k \in t.dirs THEN [err |-> NoErr, tree |-> t]
  ELSE IF \E a \in Ancestors(k) \cup {k} : a \in DOMAIN t.files
       THEN [err |-> "ENOTDIR", tree |-> t]
  ELSE [err |-> NoErr,
        tree |-> [t EXCEPT !.dirs = t.dirs \cup {k} \cup Ancestors(k)]]

\* os.Create(path): the file is created, or truncated if it exists.
OsCreate(t, path) ==
  LET k == Node(path) IN
  IF k \in t.dirs THEN [err |-> "EISDIR", tree |-> t]
  ELSE IF Parent(k) \notin t.dirs THEN [err |-> LookupErr(t, k), tree |-> t]
  ELSE [err |-> NoErr, tree |-> WithFile(t, k, Empty)]

\* A copy that stops one byte short of the data.
IoCopy_Short(t, path, content) ==
  [err |-> NoErr,
   tree |-> WithFile(t, Node(path), SubSeq(content, 1, Len(content) - 1))]

\* io.Copy(file, data) into the file just created.
IoCopy(t, path, content) ==
  [err |-> NoErr, tree |-> WithFile(t, Node(path), content)]

\* os.ReadDir(path)
OsReadDir(t, path) ==
  LET k == Node(path) IN
  [err |-> IF k \in t.dirs THEN NoErr
           ELSE IF k \in DOMAIN t.files THEN "ENOTDIR"
           ELSE LookupErr(t, k),
   tree |-> t]

\* os.RemoveAll(path): the node and everything below it; nil if there is none.
OsRemoveAll(t, path) ==
  [err |-> NoErr,
   tree |-> Without(t, {q \in Nodes(t) : IsUnder(q, Node(path))})]

\* os.Remove(path): a file or an empty directory.
OsRemove(t, path) ==
  LET k == Node(path) IN
  IF k \notin Nodes(t) THEN [err |-> LookupErr(t, k), tree |-> t]
  ELSE IF Children(t, k) # {} THEN [err |-> "ENOTEMPTY", tree |-> t]
  ELSE [err |-> NoErr, tree |-> Without(t, {k})]

\* os.IsNotExist(err)
OsIsNotExist(err) == err = "ENOENT"

\* The FileInfo of node k of the tree, reported under the caller's path: the
\* size of a file is the length of its content.
FileInfoOf(t, k, callerPath) ==
  [name  |-> IF k = <<>> THEN Root ELSE k[Len(k)],
   size  |-> IF k \in DOMAIN t.files THEN Len(t.files[k]) ELSE 0,
   isDir |-> k \in t.dirs,
   path  |-> callerPath]

\* The content a reader of node k yields.
ContentOf(t, k) == IF k \in DOMAIN t.files THEN t.files[k] ELSE Empty

\* A backend call in the log of the last operation.
Call(fn, arg) == [fn |-> fn, arg |-> arg]

(***************************************************************************)
(* How an operation ends: the call is recorded with its error, its value   *)
(* and the backend calls it made, and the backend tree is the one they     *)
(* left.                                                                   *)
(***************************************************************************)
\* errs are the failures the error of the call wraps when it wraps a list of
\* them, dropped the errors of backend calls the call met and did not return.
ReturnWith(op, args, err, cause, errs, dropped, value, made, t) ==
  /\ last' = [op |-> op, args |-> args, err |-> err, cause |-> cause,
              errs |-> errs, dropped |-> dropped]
  /\ ret' = value
  /\ calls' = made
  /\ dirs' = t.dirs
  /\ files' = t.files

Return(op, args, err, cause, value, made, t) ==
  ReturnWith(op, args, err, cause, <<>>, <<>>, value, made, t)

\* A rejection that reports no error.
Reject_Silent(op, args) ==
  Return(op, args, NoErr, NoErr, NoRet, <<>>, Tree)

\* An operation rejected because the client is not connected.
Reject(op, args) ==
  Return(op, args, NotConnected, NoErr, NoRet, <<>>, Tree)

\* What a file or directory operation leaves alone: the client's fields and
\* the environment.
opFrame == <<pathVars, pureVars, proto, cfgPath,
             connected, mounted, client, conn, session, share,
             procMounts, kernelMount, openSessions>>

(***************************************************************************)
(* The accessors of the five clients: GetProtocol returns the tag of the   *)
(* package, GetConfig the configuration the client was constructed with;   *)
(* neither looks at the connection.                                        *)
(***************************************************************************)
\* A GetProtocol that asks for a connection.
Client_GetProtocol_Checks ==
  /\ IF ~connected THEN Reject("GetProtocol", <<>>)
     ELSE Return("GetProtocol", <<>>, NoErr, NoErr,
                 [NoRet EXCEPT !.value = proto], <<>>, Tree)
  /\ UNCHANGED opFrame

\* Client.GetProtocol
Client_GetProtocol ==
  /\ Return("GetProtocol", <<>>, NoErr, NoErr,
            [NoRet EXCEPT !.value = proto], <<>>, Tree)
  /\ UNCHANGED opFrame

\* Client.GetConfig
Client_GetConfig ==
  /\ Return("GetConfig", <<>>, NoErr, NoErr,
            [NoRet EXCEPT !.value = "config"], <<>>, Tree)
  /\ UNCHANGED opFrame

(***************************************************************************)
(* The Local client (pkg/local).                                           *)
(***************************************************************************)
\* c.resolvePath(path) for each caller path, the base path being BasePath.
Local_fullPath == [path \in ListPaths |-> Local_resolvePath(BasePath, path)]

\* local.Client.IsConnected
Local_IsConnected == connected

\* A Connect that clears the connection flag when it fails.
Local_Connect_Resets(fault) ==
  /\ proto = "local"
  /\ \E st \in {OsStat(Tree, BasePath, fault)} :
     /\ connected' = (st.err = NoErr /\ Node(BasePath) \in dirs)
     /\ Return("Connect", <<>>,
               IF st.err # NoErr THEN "failed to access base path"
               ELSE IF Node(BasePath) \notin dirs
               THEN "base path is not a directory" ELSE NoErr,
               st.err, NoRet, <<Call("os.Stat", BasePath)>>, Tree)
  /\ UNCHANGED <<pathVars, pureVars, proto, cfgPath, mounted, client, conn, session,
                 share, procMounts, kernelMount, openSessions>>

\* local.Client.Connect: the base path must exist and be a directory.
Local_Connect(fault) ==
  /\ proto = "local"
  /\ \E st \in {OsStat(Tree, BasePath, fault)} :
     \E made \in {<<Call("os.Stat", BasePath)>>} :
     IF st.err # NoErr
     THEN /\ Return("Connect", <<>>, "failed to access base path", st.err,
                    NoRet, made, Tree)
          /\ UNCHANGED connected
     ELSE IF Node(BasePath) \notin dirs
     THEN /\ Return("Connect", <<>>, "base path is not a directory", NoErr,
                    NoRet, made, Tree)
          /\ UNCHANGED connected
     ELSE /\ connected' = TRUE
          /\ Return("Connect", <<>>, NoErr, NoErr, NoRet, made, Tree)
  /\ UNCHANGED <<pathVars, pureVars, proto, cfgPath, mounted, client, conn, session,
                 share, procMounts, kernelMount, openSessions>>

\* local.Client.Disconnect
Local_Disconnect ==
  /\ proto = "local"
  /\ connected' = FALSE
  /\ Return("Disconnect", <<>>, NoErr, NoErr, NoRet, <<>>, Tree)
  /\ UNCHANGED <<pathVars, pureVars, proto, cfgPath, mounted, client, conn, session,
                 share, procMounts, kernelMount, openSessions>>

\* local.Client.TestConnection
Local_TestConnection(fault) ==
  /\ proto = "local"
  /\ IF ~Local_IsConnected THEN Reject("TestConnection", <<>>)
     ELSE \E st \in {OsStat(Tree, BasePath, fault)} :
          Return("TestConnection", <<>>, st.err, st.err, NoRet,
                 <<Call("os.Stat", BasePath)>>, Tree)
  /\ UNCHANGED opFrame

\* local.Client.ReadFile
Local_ReadFile(path) ==
  /\ proto = "local"
  /\ IF ~Local_IsConnected THEN Reject("ReadFile", <<path>>)
     ELSE \E fullPath \in {Local_fullPath[path]} :
          \E op \in {OsOpen(Tree, fullPath)} :
          \E made \in {<<Call("os.Open", fullPath)>>} :
          IF op.err # NoErr
          THEN Return("ReadFile", <<path>>, "failed to open local file",
                      op.err, NoRet, made, Tree)
          ELSE Return("ReadFile", <<path>>, NoErr, NoErr,
                      [NoRet EXCEPT !.data = ContentOf(Tree, Node(fullPath))],
                      made, Tree)
  /\ UNCHANGED opFrame

\* local.Client.WriteFile
Local_WriteFile(path, data) ==
  /\ proto = "local"
  /\ IF ~Local_IsConnected THEN Reject("WriteFile", <<path, data>>)
     ELSE \E fullPath \in {Local_fullPath[path]} :
          \E dir \in {Dir(fullPath)} :
          \E mk \in {OsMkdirAll(Tree, dir)} :
          \E cr \in {OsCreate(mk.tree, fullPath)} :
          \E cp \in {IoCopy(cr.tree, fullPath, data)} :
          \E c1 \in {<<Call("os.MkdirAll", dir)>>} :
          \E c2 \in {c1 \o <<Call("os.Create", fullPath)>>} :
          \E c3 \in {c2 \o <<Call("io.Copy", fullPath)>>} :
          IF mk.err # NoErr
          THEN Return("WriteFile", <<path, data>>,
                      "failed to create directory", mk.err, NoRet, c1,
                      mk.tree)
          ELSE IF cr.err # NoErr
          THEN Return("WriteFile", <<path, data>>,
                      "failed to create local file", cr.err, NoRet, c2,
                      cr.tree)
          ELSE Return("WriteFile", <<path, data>>, NoErr, NoErr, NoRet, c3,
                      cp.tree)
  /\ UNCHANGED opFrame

\* local.Client.GetFileInfo
Local_GetFileInfo(path) ==
  /\ proto = "local"
  /\ IF ~Local_IsConnected THEN Reject("GetFileInfo", <<path>>)
     ELSE \E fullPath \in {Local_fullPath[path]} :
          \E st \in {OsStat(Tree, fullPath, FALSE)} :
          \E made \in {<<Call("os.Stat", fullPath)>>} :
          IF st.err # NoErr
          THEN Return("GetFileInfo", <<path>>, "failed to stat local file",
                      st.err, NoRet, made, Tree)
          ELSE Return("GetFileInfo", <<path>>, NoErr, NoErr,
                      [NoRet EXCEPT !.info =
                         {FileInfoOf(Tree, Node(fullPath), path)}],
                      made, Tree)
  /\ UNCHANGED opFrame

\* local.Client.ListDirectory
Local_ListDirectory(path) ==
  /\ proto = "local"
  /\ IF ~Local_IsConnected THEN Reject("ListDirectory", <<path>>)
     ELSE \E fullPath \in {Local_fullPath[path]} :
          \E rd \in {OsReadDir(Tree, fullPath)} :
          \E made \in {<<Call("os.ReadDir", fullPath)>>} :
          IF rd.err # NoErr
          THEN Return("ListDirectory", <<path>>,
                      "failed to list local directory", rd.err, NoRet,
                      made, Tree)
          ELSE Return("ListDirectory", <<path>>, NoErr, NoErr,
                      [NoRet EXCEPT !.entries =
                         {FileInfoOf(Tree, q, Join(path, q[Len(q)])) :
                            q \in Children(Tree, Node(fullPath))}],
                      made, Tree)
  /\ UNCHANGED opFrame

\* local.Client.FileExists
Local_FileExists(path, fault) ==
  /\ proto = "local"
  /\ IF ~Local_IsConnected THEN Reject("FileExists", <<path>>)
     ELSE \E fullPath \in {Local_fullPath[path]} :
          \E st \in {OsStat(Tree, fullPath, fault)} :
          \E made \in {<<Call("os.Stat", fullPath)>>} :
          IF st.err # NoErr
          THEN IF OsIsNotExist(st.err)
               THEN Return("FileExists", <<path>>, NoErr, st.err, NoRet,
                           made, Tree)
               ELSE Return("FileExists", <<path>>,
                           "failed to check local file existence", st.err,
                           NoRet, made, Tree)
          ELSE Return("FileExists", <<path>>, NoErr, NoErr,
                      [NoRet EXCEPT !.exists = TRUE], made, Tree)
  /\ UNCHANGED opFrame

\* local.Client.CreateDirectory
Local_CreateDirectory(path) ==
  /\ proto = "local"
  /\ IF ~Local_IsConnected THEN Reject("CreateDirectory", <<path>>)
     ELSE \E fullPath \in {Local_fullPath[path]} :
          \E mk \in {OsMkdirAll(Tree, fullPath)} :
          \E made \in {<<Call("os.MkdirAll", fullPath)>>} :
          IF mk.err # NoErr
          THEN Return("CreateDirectory", <<path>>,
                      "failed to create local directory", mk.err, NoRet,
                      made, mk.tree)
          ELSE Return("CreateDirectory", <<path>>, NoErr, NoErr, NoRet,
                      made, mk.tree)
  /\ UNCHANGED opFrame

\* local.Client.DeleteDirectory
Local_DeleteDirectory(path) ==
  /\ proto = "local"
  /\ IF ~Local_IsConnected THEN Reject("DeleteDirectory", <<path>>)
     ELSE \E fullPath \in {Local_fullPath[path]} :
          \E rm \in {OsRemoveAll(Tree, fullPath)} :
          \E made \in {<<Call("os.RemoveAll", fullPath)>>} :
          Return("DeleteDirectory", <<path>>, NoErr, NoErr, NoRet, made,
                 rm.tree)
  /\ UNCHANGED opFrame

\* local.Client.DeleteFile
Local_DeleteFile(path) ==
  /\ proto = "local"
  /\ IF ~Local_IsConnected THEN Reject("DeleteFile", <<path>>)
     ELSE \E fullPath \in {Local_fullPath[path]} :
          \E rm \in {OsRemove(Tree, fullPath)} :
          \E made \in {<<Call("os.Remove", fullPath)>>} :
          IF rm.err # NoErr
          THEN Return("DeleteFile", <<path>>,
                      "failed to delete local file", rm.err, NoRet, made,
                      rm.tree)
          ELSE Return("DeleteFile", <<path>>, NoErr, NoErr, NoRet, made,
                      rm.tree)
  /\ UNCHANGED opFrame

\* local.Client.CopyFile.  The source is read by io.Copy after os.Create has
\* truncated the destination; reading a directory fails with EISDIR.
Local_CopyFile(srcPath, dstPath) ==
  /\ proto = "local"
  /\ IF ~Local_IsConnected THEN Reject("CopyFile", <<srcPath, dstPath>>)
     ELSE \E srcFullPath \in {Local_fullPath[srcPath]} :
          \E dstFullPath \in {Local_fullPath[dstPath]} :
          \E dstDir \in {Dir(dstFullPath)} :
          \E mk \in {OsMkdirAll(Tree, dstDir)} :
          \E op \in {OsOpen(mk.tree, srcFullPath)} :
          \E cr \in {OsCreate(mk.tree, dstFullPath)} :
          \E cp \in
             { IF Node(srcFullPath) \in cr.tree.dirs
               THEN [err |-> "EISDIR", tree |-> cr.tree]
               ELSE IoCopy(cr.tree, dstFullPath,
               ContentOf(cr.tree, Node(srcFullPath))) } :
          \E c1 \in {<<Call("os.MkdirAll", dstDir)>>} :
          \E c2 \in {c1 \o <<Call("os.Open", srcFullPath)>>} :
          \E c3 \in {c2 \o <<Call("os.Create", dstFullPath)>>} :
          \E c4 \in {c3 \o <<Call("io.Copy", dstFullPath)>>} :
          \E args \in {<<srcPath, dstPath>>} :
          IF mk.err # NoErr
          THEN Return("CopyFile", args,
                      "failed to create destination directory", mk.err,
                      NoRet, c1, mk.tree)
          ELSE IF op.err # NoErr
          THEN Return("CopyFile", args, "failed to open source file",
                      op.err, NoRet, c2, mk.tree)
          ELSE IF cr.err # NoErr
          THEN Return("CopyFile", args,
                      "failed to create destination file", cr.err, NoRet,
                      c3, cr.tree)
          ELSE IF cp.err # NoErr
          THEN Return("CopyFile", args, "failed to copy file", cp.err,
                      NoRet, c4, cp.tree)
          ELSE Return("CopyFile", args, NoErr, NoErr, NoRet, c4, cp.tree)
  /\ UNCHANGED opFrame

(***************************************************************************)
(* The NFS client (pkg/nfs): the share is mounted at the mount point       *)
(* BasePath and the files are reached through the os package.              *)
(***************************************************************************)
\* c.resolvePath(path) for each caller path, the mount point being BasePath.
NFS_fullPath == [path \in ListPaths |-> NFS_resolvePath(BasePath, path)]

\* nfs.Client.isMounted: whether /proc/mounts can be opened.
NFS_isMounted == procMounts

\* nfs.Client.IsConnected
NFS_IsConnected == connected /\ mounted /\ NFS_isMounted

\* What a lifecycle call of the NFS client leaves alone.
nfsFrame == <<pathVars, pureVars, proto, cfgPath, client, conn, session, share,
              procMounts, openSessions>>

\* nfs.Client.Connect: nothing is mounted when /proc/mounts can be opened;
\* otherwise the mount point is created and the share mounted on it.
NFS_Connect(fault) ==
  /\ proto = "nfs"
  /\ IF NFS_isMounted
     THEN /\ connected' = TRUE
          /\ Return("Connect", <<>>, NoErr, NoErr, NoRet, <<>>, Tree)
          /\ UNCHANGED <<mounted, kernelMount>>
     ELSE \E mk \in
             { IF fault = "os.MkdirAll"
               THEN [err |-> "EACCES", tree |-> Tree]
               ELSE OsMkdirAll(Tree, BasePath) } :
          \E c1 \in {<<Call("os.MkdirAll", BasePath)>>} :
          \E c2 \in {c1 \o <<Call("syscall.Mount", BasePath)>>} :
          IF mk.err # NoErr
          THEN /\ Return("Connect", <<>>, "failed to create mount point",
                         mk.err, NoRet, c1, mk.tree)
               /\ UNCHANGED <<connected, mounted, kernelMount>>
          ELSE IF fault = "syscall.Mount"
          THEN /\ Return("Connect", <<>>, "failed to mount NFS share",
                         "ECONNREFUSED", NoRet, c2, mk.tree)
               /\ UNCHANGED <<connected, mounted, kernelMount>>
          ELSE /\ mounted' = TRUE
               /\ connected' = TRUE
               /\ kernelMount' = TRUE
               /\ Return("Connect", <<>>, NoErr, NoErr, NoRet, c2, mk.tree)
  /\ UNCHANGED nfsFrame

\* nfs.Client.Disconnect: a mounted share is unmounted; when the unmount
\* fails the call returns before any field is cleared.
NFS_Disconnect(fault) ==
  /\ proto = "nfs"
  /\ IF mounted
     THEN \E made \in {<<Call("syscall.Unmount", BasePath)>>} :
          IF fault \/ ~kernelMount
          THEN /\ Return("Disconnect", <<>>,
                         "failed to unmount NFS share",
                         IF fault THEN "EBUSY" ELSE "EINVAL", NoRet, made,
                         Tree)
               /\ UNCHANGED <<connected, mounted, kernelMount>>
          ELSE /\ mounted' = FALSE
               /\ connected' = FALSE
               /\ kernelMount' = FALSE
               /\ Return("Disconnect", <<>>, NoErr, NoErr, NoRet, made,
                         Tree)
     ELSE /\ connected' = FALSE
          /\ Return("Disconnect", <<>>, NoErr, NoErr, NoRet, <<>>, Tree)
          /\ UNCHANGED <<mounted, kernelMount>>
  /\ UNCHANGED nfsFrame

\* nfs.Client.TestConnection
NFS_TestConnection(fault) ==
  /\ proto = "nfs"
  /\ IF ~NFS_IsConnected THEN Reject("TestConnection", <<>>)
     ELSE \E st \in {OsStat(Tree, BasePath, fault)} :
          Return("TestConnection", <<>>, st.err, st.err, NoRet,
                 <<Call("os.Stat", BasePath)>>, Tree)
  /\ UNCHANGED opFrame

\* nfs.Client.ReadFile
NFS_ReadFile(path) ==
  /\ proto = "nfs"
  /\ IF ~NFS_IsConnected THEN Reject("ReadFile", <<path>>)
     ELSE \E fullPath \in {NFS_fullPath[path]} :
          \E op \in {OsOpen(Tree, fullPath)} :
          \E made \in {<<Call("os.Open", fullPath)>>} :
          IF op.err # NoErr
          THEN Return("ReadFile", <<path>>, "failed to open NFS file",
                      op.err, NoRet, made, Tree)
          ELSE Return("ReadFile", <<path>>, NoErr, NoErr,
                      [NoRet EXCEPT !.data = ContentOf(Tree, Node(fullPath))],
                      made, Tree)
  /\ UNCHANGED opFrame

\* nfs.Client.WriteFile
NFS_WriteFile(path, data) ==
  /\ proto = "nfs"
  /\ IF ~NFS_IsConnected THEN Reject("WriteFile", <<path, data>>)
     ELSE \E fullPath \in {NFS_fullPath[path]} :
          \E dir \in {Dir(fullPath)} :
          \E mk \in {OsMkdirAll(Tree, dir)} :
          \E cr \in {OsCreate(mk.tree, fullPath)} :
          \E cp \in {IoCopy(cr.tree, fullPath, data)} :
          \E c1 \in {<<Call("os.MkdirAll", dir)>>} :
          \E c2 \in {c1 \o <<Call("os.Create", fullPath)>>} :
          \E c3 \in {c2 \o <<Call("io.Copy", fullPath)>>} :
          IF mk.err # NoErr
          THEN Return("WriteFile", <<path, data>>,
                      "failed to create directory", mk.err, NoRet, c1,
                      mk.tree)
          ELSE IF cr.err # NoErr
          THEN Return("WriteFile", <<path, data>>,
                      "failed to create NFS file", cr.err, NoRet, c2,
                      cr.tree)
          ELSE Return("WriteFile", <<path, data>>, NoErr, NoErr, NoRet, c3,
                      cp.tree)
  /\ UNCHANGED opFrame

\* nfs.Client.GetFileInfo
NFS_GetFileInfo(path) ==
  /\ proto = "nfs"
  /\ IF ~NFS_IsConnected THEN Reject("GetFileInfo", <<path>>)
     ELSE \E fullPath \in {NFS_fullPath[path]} :
          \E st \in {OsStat(Tree, fullPath, FALSE)} :
          \E made \in {<<Call("os.Stat", fullPath)>>} :
          IF st.err # NoErr
          THEN Return("GetFileInfo", <<path>>, "failed to stat NFS file",
                      st.err, NoRet, made, Tree)
          ELSE Return("GetFileInfo", <<path>>, NoErr, NoErr,
                      [NoRet EXCEPT !.info =
                         {FileInfoOf(Tree, Node(fullPath), path)}],
                      made, Tree)
  /\ UNCHANGED opFrame

\* nfs.Client.ListDirectory
NFS_ListDirectory(path) ==
  /\ proto = "nfs"
  /\ IF ~NFS_IsConnected THEN Reject("ListDirectory", <<path>>)
     ELSE \E fullPath \in {NFS_fullPath[path]} :
          \E rd \in {OsReadDir(Tree, fullPath)} :
          \E made \in {<<Call("os.ReadDir", fullPath)>>} :
          IF rd.err # NoErr
          THEN Return("ListDirectory", <<path>>,
                      "failed to list NFS directory", rd.err, NoRet,
                      made, Tree)
          ELSE Return("ListDirectory", <<path>>, NoErr, NoErr,
                      [NoRet EXCEPT !.entries =
                         {FileInfoOf(Tree, q, Join(path, q[Len(q)])) :
                            q \in Children(Tree, Node(fullPath))}],
                      made, Tree)
  /\ UNCHANGED opFrame

\* nfs.Client.FileExists
NFS_FileExists(path, fault) ==
  /\ proto = "nfs"
  /\ IF ~NFS_IsConnected THEN Reject("FileExists", <<path>>)
     ELSE \E fullPath \in {NFS_fullPath[path]} :
          \E st \in {OsStat(Tree, fullPath, fault)} :
          \E made \in {<<Call("os.Stat", fullPath)>>} :
          IF st.err # NoErr
          THEN IF OsIsNotExist(st.err)
               THEN Return("FileExists", <<path>>, NoErr, st.err, NoRet,
                           made, Tree)
               ELSE Return("FileExists", <<path>>,
                           "failed to check NFS file existence", st.err,
                           NoRet, made, Tree)
          ELSE Return("FileExists", <<path>>, NoErr, NoErr,
                      [NoRet EXCEPT !.exists = TRUE], made, Tree)
  /\ UNCHANGED opFrame

\* nfs.Client.CreateDirectory
NFS_CreateDirectory(path) ==
  /\ proto = "nfs"
  /\ IF ~NFS_IsConnected THEN Reject("CreateDirectory", <<path>>)
     ELSE \E fullPath \in {NFS_fullPath[path]} :
          \E mk \in {OsMkdirAll(Tree, fullPath)} :
          \E made \in {<<Call("os.MkdirAll", fullPath)>>} :
          IF mk.err # NoErr
          THEN Return("CreateDirectory", <<path>>,
                      "failed to create NFS directory", mk.err, NoRet,
                      made, mk.tree)
          ELSE Return("CreateDirectory", <<path>>, NoErr, NoErr, NoRet,
                      made, mk.tree)
  /\ UNCHANGED opFrame

\* nfs.Client.DeleteDirectory
NFS_DeleteDirectory(path) ==
  /\ proto = "nfs"
  /\ IF ~NFS_IsConnected THEN Reject("DeleteDirectory", <<path>>)
     ELSE \E fullPath \in {NFS_fullPath[path]} :
          \E rm \in {OsRemoveAll(Tree, fullPath)} :
          \E made \in {<<Call("os.RemoveAll", fullPath)>>} :
          Return("DeleteDirectory", <<path>>, NoErr, NoErr, NoRet, made,
                 rm.tree)
  /\ UNCHANGED opFrame

\* nfs.Client.DeleteFile
NFS_DeleteFile(path) ==
  /\ proto = "nfs"
  /\ IF ~NFS_IsConnected THEN Reject("DeleteFile", <<path>>)
     ELSE \E fullPath \in {NFS_fullPath[path]} :
          \E rm \in {OsRemove(Tree, fullPath)} :
          \E made \in {<<Call("os.Remove", fullPath)>>} :
          IF rm.err # NoErr
          THEN Return("DeleteFile", <<path>>,
                      "failed to delete NFS file", rm.err, NoRet, made,
                      rm.tree)
          ELSE Return("DeleteFile", <<path>>, NoErr, NoErr, NoRet, made,
                      rm.tree)
  /\ UNCHANGED opFrame

\* nfs.Client.CopyFile.  The source is read by io.Copy after os.Create has
\* truncated the destination; reading a directory fails with EISDIR.
NFS_CopyFile(srcPath, dstPath) ==
  /\ proto = "nfs"
  /\ IF ~NFS_IsConnected THEN Reject("CopyFile", <<srcPath, dstPath>>)
     ELSE \E srcFullPath \in {NFS_fullPath[srcPath]} :
          \E dstFullPath \in {NFS_fullPath[dstPath]} :
          \E dstDir \in {Dir(dstFullPath)} :
          \E mk \in {OsMkdirAll(Tree, dstDir)} :
          \E op \in {OsOpen(mk.tree, srcFullPath)} :
          \E cr \in {OsCreate(mk.tree, dstFullPath)} :
          \E cp \in
             { IF Node(srcFullPath) \in cr.tree.dirs
               THEN [err |-> "EISDIR", tree |-> cr.tree]
               ELSE IoCopy(cr.tree, dstFullPath,
               ContentOf(cr.tree, Node(srcFullPath))) } :
          \E c1 \in {<<Call("os.MkdirAll", dstDir)>>} :
          \E c2 \in {c1 \o <<Call("os.Open", srcFullPath)>>} :
          \E c3 \in {c2 \o <<Call("os.Create", dstFullPath)>>} :
          \E c4 \in {c3 \o <<Call("io.Copy", dstFullPath)>>} :
          \E args \in {<<srcPath, dstPath>>} :
          IF mk.err # NoErr
          THEN Return("CopyFile", args,
                      "failed to create destination directory", mk.err,
                      NoRet, c1, mk.tree)
          ELSE IF op.err # NoErr
          THEN Return("CopyFile", args, "failed to open source file",
                      op.err, NoRet, c2, mk.tree)
          ELSE IF cr.err # NoErr
          THEN Return("CopyFile", args,
                      "failed to create destination file", cr.err, NoRet,
                      c3, cr.tree)
          ELSE IF cp.err # NoErr
          THEN Return("CopyFile", args, "failed to copy file", cp.err,
                      NoRet, c4, cp.tree)
          ELSE Return("CopyFile", args, NoErr, NoErr, NoRet, c4, cp.tree)
  /\ UNCHANGED opFrame

(***************************************************************************)
(* The FTP server, as the goftp.ServerConn methods see it.  A path is      *)
(* taken from the server's root (the working directory of a session with   *)
(* no base path) and the server resolves its dot-dot elements.  Every      *)
(* method returns an error kind (NoErr or the reply code 550) and the tree *)
(* it leaves.                                                              *)
(***************************************************************************)
\* ServerConn.Retr(path)
FtpRetr(t, path) ==
  [err |-> IF Node(path) \in DOMAIN t.files THEN NoErr ELSE "550", tree |-> t]

\* ServerConn.Stor(path, r)
FtpStor(t, path, content) ==
  LET k == Node(path) IN
  IF k = <<>> \/ k \in t.dirs \/ Parent(k) \notin t.dirs
  THEN [err |-> "550", tree |-> t]
  ELSE [err |-> NoErr, tree |-> WithFile(t, k, content)]

\* ServerConn.MakeDir(path): one directory, in an existing parent.
FtpMakeDir(t, path) ==
  LET k == Node(path) IN
  IF k \in Nodes(t) \/ Parent(k) \notin t.dirs
  THEN [err |-> "550", tree |-> t]
  ELSE [err |-> NoErr, tree |-> [t EXCEPT !.dirs = t.dirs \cup {k}]]

\* ServerConn.FileSize(path): the size of a plain file.
FtpFileSize(t, path) ==
  [err |-> IF Node(path) \in DOMAIN t.files THEN NoErr ELSE "550", tree |-> t]

\* ServerConn.List(path): the entries of a directory, the entry of a file;
\* for a path that does not exist a lenient server sends an empty listing and
\* a strict one the reply 550.
FtpList(t, path, lenient) ==
  [err |-> IF Node(path) \in Nodes(t) \/ lenient THEN NoErr ELSE "550",
   tree |-> t]

\* The nodes ServerConn.List(path) returns entries for.
FtpEntries(t, path) ==
  LET k == Node(path) IN
  IF k \in t.dirs THEN Children(t, k)
  ELSE IF k \in DOMAIN t.files THEN {k}
  ELSE {}

\* ServerConn.RemoveDir(path): an empty directory.
FtpRemoveDir(t, path) ==
  LET k == Node(path) IN
  IF k \notin t.dirs \/ k = <<>> \/ Children(t, k) # {}
  THEN [err |-> "550", tree |-> t]
  ELSE [err |-> NoErr, tree |-> Without(t, {k})]

\* ServerConn.Delete(path): a file.
FtpDelete(t, path) ==
  LET k == Node(path) IN
  IF k \notin DOMAIN t.files THEN [err |-> "550", tree |-> t]
  ELSE [err |-> NoErr, tree |-> Without(t, {k})]

(***************************************************************************)
(* The FTP client (pkg/ftp).                                               *)
(***************************************************************************)
\* ftp.Client.IsConnected
\* An IsConnected that trusts the flag.
FTP_IsConnected_FlagOnly == connected

\* ftp.Client.IsConnected
FTP_IsConnected == connected /\ client # Nil

\* What a lifecycle call of the FTP client leaves alone.
ftpFrame == <<pathVars, pureVars, proto, cfgPath, mounted, conn, session, share,
              procMounts, kernelMount>>

\* A Connect that stores the session before it changes directory.
FTP_Connect_StoresEarly(fault, quitFails) ==
  /\ proto = "ftp"
  /\ openSessions < MaxSessions
  /\ client' = Handle
  /\ connected' = TRUE
  /\ openSessions' = openSessions + 1
  /\ IF cfgPath # <<>> /\ Node(cfgPath) \notin dirs
     THEN Return("Connect", <<>>, "failed to change to base directory", "550",
                 NoRet,
                 <<Call("goftp.Dial", <<>>), Call("Login", <<>>),
                   Call("ChangeDir", cfgPath)>>, Tree)
     ELSE Return("Connect", <<>>, NoErr, NoErr, NoRet,
                 <<Call("goftp.Dial", <<>>), Call("Login", <<>>)>>, Tree)
  /\ UNCHANGED ftpFrame

\* ftp.Client.Connect: dial, log in, change to the base directory; a session
\* that fails after the dial is quit; the fields are set at the end only.
\* The server refuses a session beyond MaxSessions. The error of a Quit that
\* fails (quitFails) is dropped.
FTP_Connect(fault, quitFails) ==
  /\ proto = "ftp"
  /\ \E c1 \in {<<Call("goftp.Dial", <<>>)>>} :
     \E c2 \in {c1 \o <<Call("Login", <<>>)>>} :
     \E c3 \in
        { IF cfgPath # <<>> THEN c2 \o <<Call("ChangeDir", cfgPath)>>
          ELSE c2 } :
     \E quit \in {<<Call("Quit", <<>>)>>} :
     IF fault = "Dial" \/ openSessions >= MaxSessions
     THEN /\ Return("Connect", <<>>, "failed to connect to FTP server",
                    "ECONNREFUSED", NoRet, c1, Tree)
          /\ UNCHANGED <<connected, client, openSessions>>
     ELSE IF fault = "Login"
     THEN /\ ReturnWith("Connect", <<>>, "failed to login to FTP server",
                        "530", <<>>,
                        IF quitFails THEN <<"Quit">> ELSE <<>>,
                        NoRet, c2 \o quit, Tree)
          /\ UNCHANGED <<connected, client, openSessions>>
     ELSE IF cfgPath # <<>> /\ Node(cfgPath) \notin dirs
     THEN /\ ReturnWith("Connect", <<>>,
                        "failed to change to base directory", "550", <<>>,
                        IF quitFails THEN <<"Quit">> ELSE <<>>,
                        NoRet, c3 \o quit, Tree)
          /\ UNCHANGED <<connected, client, openSessions>>
     ELSE /\ client' = Handle
          /\ connected' = TRUE
          /\ openSessions' = openSessions + 1
          /\ Return("Connect", <<>>, NoErr, NoErr, NoRet, c3, Tree)
  /\ UNCHANGED ftpFrame

\* ftp.Client.Disconnect: the session is quit and the fields cleared whether
\* or not Quit reports an error.
FTP_Disconnect(fault) ==
  /\ proto = "ftp"
  /\ IF client # Nil
     THEN /\ client' = Nil
          /\ connected' = FALSE
          /\ openSessions' = openSessions - 1
          /\ Return("Disconnect", <<>>, IF fault THEN "EPIPE" ELSE NoErr,
                    IF fault THEN "EPIPE" ELSE NoErr, NoRet,
                    <<Call("Quit", <<>>)>>, Tree)
     ELSE /\ connected' = FALSE
          /\ Return("Disconnect", <<>>, NoErr, NoErr, NoRet, <<>>, Tree)
          /\ UNCHANGED <<client, openSessions>>
  /\ UNCHANGED ftpFrame

\* ftp.Client.TestConnection
FTP_TestConnection(fault) ==
  /\ proto = "ftp"
  /\ IF ~FTP_IsConnected THEN Reject("TestConnection", <<>>)
     ELSE Return("TestConnection", <<>>, IF fault THEN "EPIPE" ELSE NoErr,
                 IF fault THEN "EPIPE" ELSE NoErr, NoRet,
                 <<Call("CurrentDir", <<>>)>>, Tree)
  /\ UNCHANGED opFrame

\* ftp.Client.ReadFile
FTP_ReadFile(path) ==
  /\ proto = "ftp"
  /\ IF ~FTP_IsConnected THEN Reject("ReadFile", <<path>>)
     ELSE \E fullPath \in {FTP_resolvePath(cfgPath, path)} :
          \E rt \in {FtpRetr(Tree, fullPath)} :
          \E made \in {<<Call("Retr", fullPath)>>} :
          IF rt.err # NoErr
          THEN Return("ReadFile", <<path>>, "failed to retrieve FTP file",
                      rt.err, NoRet, made, Tree)
          ELSE Return("ReadFile", <<path>>, NoErr, NoErr,
                      [NoRet EXCEPT !.data = ContentOf(Tree, Node(fullPath))],
                      made, Tree)
  /\ UNCHANGED opFrame

\* ftp.Client.WriteFile: the error of MakeDir is dropped.
FTP_WriteFile(path, data) ==
  /\ proto = "ftp"
  /\ IF ~FTP_IsConnected THEN Reject("WriteFile", <<path, data>>)
     ELSE \E fullPath \in {FTP_resolvePath(cfgPath, path)} :
          \E dir \in {Dir(fullPath)} :
          \E mkdir \in {dir # <<".">> /\ dir # <<"/">>} :
          \E mk \in
             { IF mkdir THEN FtpMakeDir(Tree, dir)
               ELSE [err |-> NoErr, tree |-> Tree] } :
          \E st \in {FtpStor(mk.tree, fullPath, data)} :
          \E made \in
             { (IF mkdir THEN <<Call("MakeDir", dir)>> ELSE <<>>)
               \o <<Call("Stor", fullPath)>> } :
          \E dropped \in
             { IF mk.err # NoErr THEN <<"MakeDir">> ELSE <<>> } :
          IF st.err # NoErr
          THEN ReturnWith("WriteFile", <<path, data>>,
                          "failed to store FTP file", st.err, <<>>, dropped,
                          NoRet, made, st.tree)
          ELSE ReturnWith("WriteFile", <<path, data>>, NoErr, NoErr, <<>>,
                          dropped, NoRet, made, st.tree)
  /\ UNCHANGED opFrame

\* ftp.Client.GetFileInfo: the path is a directory when List returns no
\* error; the name is the last element of the caller's path.
FTP_GetFileInfo(path) ==
  /\ proto = "ftp"
  /\ IF ~FTP_IsConnected THEN Reject("GetFileInfo", <<path>>)
     ELSE \E fullPath \in {FTP_resolvePath(cfgPath, path)} :
          \E sz \in {FtpFileSize(Tree, fullPath)} :
          \E ls \in {FtpList(Tree, fullPath, FALSE)} :
          \E c1 \in {<<Call("FileSize", fullPath)>>} :
          \E c2 \in {c1 \o <<Call("List", fullPath)>>} :
          IF sz.err # NoErr
          THEN Return("GetFileInfo", <<path>>,
                      "failed to get FTP file info", sz.err, NoRet, c1,
                      Tree)
          ELSE Return("GetFileInfo", <<path>>, NoErr, NoErr,
                      [NoRet EXCEPT !.info =
                         {[name  |-> Base(path),
                           size  |-> Len(ContentOf(Tree, Node(fullPath))),
                           isDir |-> ls.err = NoErr,
                           path  |-> path]}],
                      c2, Tree)
  /\ UNCHANGED opFrame

\* ftp.Client.ListDirectory
FTP_ListDirectory(path, lenient) ==
  /\ proto = "ftp"
  /\ IF ~FTP_IsConnected THEN Reject("ListDirectory", <<path>>)
     ELSE \E fullPath \in {FTP_resolvePath(cfgPath, path)} :
          \E ls \in {FtpList(Tree, fullPath, lenient)} :
          \E made \in {<<Call("List", fullPath)>>} :
          IF ls.err # NoErr
          THEN Return("ListDirectory", <<path>>,
                      "failed to list FTP directory", ls.err, NoRet, made,
                      Tree)
          ELSE Return("ListDirectory", <<path>>, NoErr, NoErr,
                      [NoRet EXCEPT !.entries =
                         {FileInfoOf(Tree, q, path \o <<"/">> \o q[Len(q)]) :
                            q \in FtpEntries(Tree, fullPath)}],
                      made, Tree)
  /\ UNCHANGED opFrame

\* ftp.Client.FileExists: when FileSize fails the parent is listed and the
\* name looked for among its entries.
FTP_FileExists(path, lenient) ==
  /\ proto = "ftp"
  /\ IF ~FTP_IsConnected THEN Reject("FileExists", <<path>>)
     ELSE \E fullPath \in {FTP_resolvePath(cfgPath, path)} :
          \E sz \in {FtpFileSize(Tree, fullPath)} :
          \E dir \in {Dir(fullPath)} :
          \E name \in {Base(fullPath)} :
          \E ls \in {FtpList(Tree, dir, lenient)} :
          \E c1 \in {<<Call("FileSize", fullPath)>>} :
          \E c2 \in {c1 \o <<Call("List", dir)>>} :
          IF sz.err # NoErr
          THEN IF ls.err # NoErr
               THEN Return("FileExists", <<path>>,
                           "failed to check FTP file existence", ls.err,
                           NoRet, c2, Tree)
               ELSE Return("FileExists", <<path>>, NoErr, NoErr,
                           [NoRet EXCEPT !.exists =
                              \E q \in FtpEntries(Tree, dir) :
                                q[Len(q)] = name],
                           c2, Tree)
          ELSE Return("FileExists", <<path>>, NoErr, NoErr,
                      [NoRet EXCEPT !.exists = TRUE], c1, Tree)
  /\ UNCHANGED opFrame

\* ftp.Client.CreateDirectory
FTP_CreateDirectory(path) ==
  /\ proto = "ftp"
  /\ IF ~FTP_IsConnected THEN Reject("CreateDirectory", <<path>>)
     ELSE \E fullPath \in {FTP_resolvePath(cfgPath, path)} :
          \E mk \in {FtpMakeDir(Tree, fullPath)} :
          \E made \in {<<Call("MakeDir", fullPath)>>} :
          IF mk.err # NoErr
          THEN Return("CreateDirectory", <<path>>,
                      "failed to create FTP directory", mk.err, NoRet,
                      made, mk.tree)
          ELSE Return("CreateDirectory", <<path>>, NoErr, NoErr, NoRet,
                      made, mk.tree)
  /\ UNCHANGED opFrame

\* ftp.Client.DeleteDirectory
FTP_DeleteDirectory(path) ==
  /\ proto = "ftp"
  /\ IF ~FTP_IsConnected THEN Reject("DeleteDirectory", <<path>>)
     ELSE \E fullPath \in {FTP_resolvePath(cfgPath, path)} :
          \E rm \in {FtpRemoveDir(Tree, fullPath)} :
          \E made \in {<<Call("RemoveDir", fullPath)>>} :
          IF rm.err # NoErr
          THEN Return("DeleteDirectory", <<path>>,
                      "failed to delete FTP directory", rm.err, NoRet,
                      made, rm.tree)
          ELSE Return("DeleteDirectory", <<path>>, NoErr, NoErr, NoRet,
                      made, rm.tree)
  /\ UNCHANGED opFrame

\* ftp.Client.DeleteFile
FTP_DeleteFile(path) ==
  /\ proto = "ftp"
  /\ IF ~FTP_IsConnected THEN Reject("DeleteFile", <<path>>)
     ELSE \E fullPath \in {FTP_resolvePath(cfgPath, path)} :
          \E rm \in {FtpDelete(Tree, fullPath)} :
          \E made \in {<<Call("Delete", fullPath)>>} :
          IF rm.err # NoErr
          THEN Return("DeleteFile", <<path>>, "failed to delete FTP file",
                      rm.err, NoRet, made, rm.tree)
          ELSE Return("DeleteFile", <<path>>, NoErr, NoErr, NoRet, made,
                      rm.tree)
  /\ UNCHANGED opFrame

\* ftp.Client.CopyFile: the source is retrieved and stored again; the error
\* of MakeDir is dropped.
FTP_CopyFile(srcPath, dstPath) ==
  /\ proto = "ftp"
  /\ IF ~FTP_IsConnected THEN Reject("CopyFile", <<srcPath, dstPath>>)
     ELSE \E srcFullPath \in {FTP_resolvePath(cfgPath, srcPath)} :
          \E dstFullPath \in {FTP_resolvePath(cfgPath, dstPath)} :
          \E rt \in {FtpRetr(Tree, srcFullPath)} :
          \E dstDir \in {Dir(dstFullPath)} :
          \E mkdir \in {dstDir # <<".">> /\ dstDir # <<"/">>} :
          \E mk \in
             { IF mkdir THEN FtpMakeDir(Tree, dstDir)
               ELSE [err |-> NoErr, tree |-> Tree] } :
          \E st \in
             { FtpStor(mk.tree, dstFullPath,
               ContentOf(Tree, Node(srcFullPath))) } :
          \E c1 \in {<<Call("Retr", srcFullPath)>>} :
          \E c2 \in
             { c1 \o (IF mkdir THEN <<Call("MakeDir", dstDir)>> ELSE <<>>)
               \o <<Call("Stor", dstFullPath)>> } :
          \E args \in {<<srcPath, dstPath>>} :
          IF rt.err # NoErr
          THEN Return("CopyFile", args, "failed to retrieve source file",
                      rt.err, NoRet, c1, Tree)
          ELSE IF st.err # NoErr
          THEN Return("CopyFile", args, "failed to store destination file",
                      st.err, NoRet, c2, st.tree)
          ELSE Return("CopyFile", args, NoErr, NoErr, NoRet, c2, st.tree)
  /\ UNCHANGED opFrame

(***************************************************************************)
(* The SMB share, as the smb2.Share methods see it.  The share is the      *)
(* directory BasePath of the server; a path is taken from the root of the  *)
(* share, and the server refuses a path that leaves the share.  Every      *)
(* method returns an error kind and the tree it leaves.                    *)
(***************************************************************************)
\* Whether a path stays in the share, and the node it names.
SmbInShare(path) == ~HasPrefix(Clean(path), DotDot)
SmbNode(path) == Node(BasePath \o <<"/">> \o path)

\* The error of a lookup in the share.
SmbLookupErr(t, path) ==
  IF ~SmbInShare(path) THEN "EINVAL" ELSE LookupErr(t, SmbNode(path))

\* Share.Open(path)
SmbOpen(t, path) == [err |-> SmbLookupErr(t, path), tree |-> t]

\* Share.Stat(path)
SmbStat(t, path, denied) ==
  [err |-> IF denied THEN "EACCES" ELSE SmbLookupErr(t, path), tree |-> t]

\* Share.Create(path): the file is created, or truncated if it exists.
SmbCreate(t, path) ==
  IF ~SmbInShare(path) THEN [err |-> "EINVAL", tree |-> t]
  ELSE IF SmbNode(path) \in t.dirs THEN [err |-> "EISDIR", tree |-> t]
  ELSE IF Parent(SmbNode(path)) \notin t.dirs
  THEN [err |-> LookupErr(t, SmbNode(path)), tree |-> t]
  ELSE [err |-> NoErr, tree |-> WithFile(t, SmbNode(path), Empty)]

\* Share.ReadDir(path)
SmbReadDir(t, path) ==
  [err |-> IF ~SmbInShare(path) THEN "EINVAL"
           ELSE IF SmbNode(path) \in t.dirs THEN NoErr
           ELSE IF SmbNode(path) \in DOMAIN t.files THEN "ENOTDIR"
           ELSE LookupErr(t, SmbNode(path)),
   tree |-> t]

\* Share.Mkdir(path, perm): one directory, in an existing parent.
SmbMkdir(t, path) ==
  IF ~SmbInShare(path) THEN [err |-> "EINVAL", tree |-> t]
  ELSE IF SmbNode(path) \in Nodes(t) THEN [err |-> "EEXIST", tree |-> t]
  ELSE IF Parent(SmbNode(path)) \notin t.dirs
  THEN [err |-> LookupErr(t, SmbNode(path)), tree |-> t]
  ELSE [err |-> NoErr, tree |-> [t EXCEPT !.dirs = t.dirs \cup {SmbNode(path)}]]

\* Share.Remove(path): a file or an empty directory.
SmbRemove(t, path) ==
  IF ~SmbInShare(path) THEN [err |-> "EINVAL", tree |-> t]
  ELSE IF SmbNode(path) \notin Nodes(t)
  THEN [err |-> LookupErr(t, SmbNode(path)), tree |-> t]
  ELSE IF Children(t, SmbNode(path)) # {} THEN [err |-> "ENOTEMPTY", tree |-> t]
  ELSE [err |-> NoErr, tree |-> Without(t, {SmbNode(path)})]

\* err.Error() of an error of Share.Stat: the text of the error kind, behind
\* the operation when the library hands it out in an *os.PathError.
SmbErrorText(kind, wrapped) ==
  (IF wrapped THEN <<"stat">> ELSE <<>>)
    \o <<IF kind = "ENOENT" THEN "file does not exist" ELSE kind>>

\* isNotExistError(err), text being err.Error()
isNotExistError(text) ==
  text = <<"file does not exist">> \/ text = <<"no such file or directory">>

(***************************************************************************)
(* The SMB client (pkg/smb).                                               *)
(***************************************************************************)
\* smb.Client.IsConnected
SMB_IsConnected == share # Nil /\ session # Nil /\ conn # Nil

\* What a lifecycle call of the SMB client leaves alone.
smbFrame == <<pathVars, pureVars, proto, cfgPath, connected, mounted, client,
              procMounts, kernelMount>>

\* A Connect that keeps the transport it dialled when the session fails.
SMB_Connect_KeepsTransport(fault, faults) ==
  /\ proto = "smb"
  /\ openSessions < MaxSessions
  /\ conn' = Handle
  /\ session' = IF fault = "none" THEN Handle ELSE session
  /\ share' = IF fault = "none" THEN Handle ELSE share
  /\ openSessions' = openSessions + 1
  /\ Return("Connect", <<>>,
            IF fault = "none" THEN NoErr ELSE "failed to create SMB session",
            IF fault = "none" THEN NoErr ELSE "EACCES", NoRet,
            <<Call("net.Dial", <<>>), Call("Dialer.Dial", <<>>)>>, Tree)
  /\ UNCHANGED smbFrame

\* smb.Client.Connect: dial, open a session, mount the share; what was opened
\* is closed when a later step fails; the fields are set at the end only.
\* The server refuses a connection beyond MaxSessions. faults are the
\* teardown calls that fail when they are made; their errors are dropped.
SMB_Connect(fault, faults) ==
  /\ proto = "smb"
  /\ \E c1 \in {<<Call("net.Dial", <<>>)>>} :
     \E c2 \in {c1 \o <<Call("Dialer.Dial", <<>>)>>} :
     \E c3 \in {c2 \o <<Call("Mount", BasePath)>>} :
     IF fault = "net.Dial" \/ openSessions >= MaxSessions
     THEN /\ Return("Connect", <<>>, "failed to connect to SMB server",
                    "ECONNREFUSED", NoRet, c1, Tree)
          /\ UNCHANGED <<conn, session, share, openSessions>>
     ELSE IF fault = "Dialer.Dial"
     THEN /\ ReturnWith("Connect", <<>>, "failed to create SMB session",
                        "EACCES", <<>>,
                        IF "Close" \in faults THEN <<"Close">> ELSE <<>>,
                        NoRet, c2 \o <<Call("Close", <<>>)>>, Tree)
          /\ UNCHANGED <<conn, session, share, openSessions>>
     ELSE IF Node(BasePath) \notin dirs
     THEN /\ ReturnWith("Connect", <<>>, "failed to mount SMB share",
                        "ENOENT", <<>>,
                        (IF "Logoff" \in faults THEN <<"Logoff">> ELSE <<>>)
                        \o (IF "Close" \in faults THEN <<"Close">> ELSE <<>>),
                        NoRet,
                        c3 \o <<Call("Logoff", <<>>), Call("Close", <<>>)>>,
                        Tree)
          /\ UNCHANGED <<conn, session, share, openSessions>>
     ELSE /\ conn' = Handle
          /\ session' = Handle
          /\ share' = Handle
          /\ openSessions' = openSessions + 1
          /\ Return("Connect", <<>>, NoErr, NoErr, NoRet, c3, Tree)
  /\ UNCHANGED smbFrame

\* The teardown calls of the SMB client: share.Umount, session.Logoff and
\* conn.Close.
SmbTeardown == {"Umount", "Logoff", "Close"}

\* smb.Client.Disconnect: every handle held is closed and cleared; the errors
\* of the three steps are collected and reported together.
\* A Disconnect that returns at the first teardown step that fails.
SMB_Disconnect_StopsAtFirst(faults) ==
  /\ proto = "smb"
  /\ share' = Nil
  /\ session' = IF share # Nil /\ "Umount" \in faults THEN session ELSE Nil
  /\ conn' = IF (share # Nil /\ "Umount" \in faults)
               \/ (session # Nil /\ "Logoff" \in faults)
            THEN conn ELSE Nil
  /\ openSessions' = IF conn # Nil /\ conn' = Nil THEN openSessions - 1
                     ELSE openSessions
  /\ IF faults # {}
     THEN ReturnWith("Disconnect", <<>>, "errors closing SMB client", "EPIPE",
                     <<"failed">>, <<>>, NoRet, <<>>, Tree)
     ELSE Return("Disconnect", <<>>, NoErr, NoErr, NoRet, <<>>, Tree)
  /\ UNCHANGED smbFrame

\* A Disconnect that keeps the handle whose teardown step failed.
SMB_Disconnect_KeepsFailed(faults) ==
  /\ proto = "smb"
  /\ share' = IF "Umount" \in faults THEN share ELSE Nil
  /\ session' = IF "Logoff" \in faults THEN session ELSE Nil
  /\ conn' = IF "Close" \in faults THEN conn ELSE Nil
  /\ openSessions' = IF conn # Nil /\ conn' = Nil THEN openSessions - 1
                     ELSE openSessions
  /\ IF faults # {}
     THEN ReturnWith("Disconnect", <<>>, "errors closing SMB client", "EPIPE",
                     <<"failed">>, <<>>, NoRet, <<>>, Tree)
     ELSE Return("Disconnect", <<>>, NoErr, NoErr, NoRet, <<>>, Tree)
  /\ UNCHANGED smbFrame

\* faults are the teardown calls that fail when they are made.
SMB_Disconnect(faults) ==
  /\ proto = "smb"
  /\ share' = Nil
  /\ session' = Nil
  /\ conn' = Nil
  /\ openSessions' = IF conn # Nil THEN openSessions - 1 ELSE openSessions
  /\ \E made \in
        { (IF share # Nil THEN <<Call("Umount", <<>>)>> ELSE <<>>)
          \o (IF session # Nil THEN <<Call("Logoff", <<>>)>> ELSE <<>>)
          \o (IF conn # Nil THEN <<Call("Close", <<>>)>> ELSE <<>>) } :
     \E errs \in
        { (IF share # Nil /\ "Umount" \in faults
           THEN <<"failed to unmount share">> ELSE <<>>)
          \o (IF session # Nil /\ "Logoff" \in faults
              THEN <<"failed to logoff session">> ELSE <<>>)
          \o (IF conn # Nil /\ "Close" \in faults
              THEN <<"failed to close connection">> ELSE <<>>) } :
     IF Len(errs) > 0
     THEN ReturnWith("Disconnect", <<>>, "errors closing SMB client", "EPIPE",
                     errs, <<>>, NoRet, made, Tree)
     ELSE Return("Disconnect", <<>>, NoErr, NoErr, NoRet, made, Tree)
  /\ UNCHANGED smbFrame

\* smb.Client.TestConnection
SMB_TestConnection(fault) ==
  /\ proto = "smb"
  /\ IF ~SMB_IsConnected THEN Reject("TestConnection", <<>>)
     ELSE \E rd \in {IF fault THEN [err |-> "EPIPE", tree |-> Tree]
                     ELSE SmbReadDir(Tree, <<".">>)} :
          Return("TestConnection", <<>>, rd.err, rd.err, NoRet,
                 <<Call("ReadDir", <<".">>)>>, Tree)
  /\ UNCHANGED opFrame

\* smb.Client.ReadFile
SMB_ReadFile(path) ==
  /\ proto = "smb"
  /\ IF ~SMB_IsConnected THEN Reject("ReadFile", <<path>>)
     ELSE \E op \in {SmbOpen(Tree, SMB_path(path))} :
          \E made \in {<<Call("Open", SMB_path(path))>>} :
          IF op.err # NoErr
          THEN Return("ReadFile", <<path>>, "failed to open SMB file", op.err,
                      NoRet, made, Tree)
          ELSE Return("ReadFile", <<path>>, NoErr, NoErr,
                      [NoRet EXCEPT !.data = ContentOf(Tree, SmbNode(path))],
                      made, Tree)
  /\ UNCHANGED opFrame

\* smb.Client.WriteFile
SMB_WriteFile(path, data) ==
  /\ proto = "smb"
  /\ IF ~SMB_IsConnected THEN Reject("WriteFile", <<path, data>>)
     ELSE \E cr \in {SmbCreate(Tree, SMB_path(path))} :
          \E c1 \in {<<Call("Create", SMB_path(path))>>} :
          \E c2 \in {c1 \o <<Call("io.Copy", SMB_path(path))>>} :
          IF cr.err # NoErr
          THEN Return("WriteFile", <<path, data>>, "failed to create SMB file",
                      cr.err, NoRet, c1, cr.tree)
          ELSE Return("WriteFile", <<path, data>>, NoErr, NoErr, NoRet, c2,
                      WithFile(cr.tree, SmbNode(path), data))
  /\ UNCHANGED opFrame

\* smb.Client.GetFileInfo
SMB_GetFileInfo(path) ==
  /\ proto = "smb"
  /\ IF ~SMB_IsConnected THEN Reject("GetFileInfo", <<path>>)
     ELSE \E st \in {SmbStat(Tree, SMB_path(path), FALSE)} :
          \E made \in {<<Call("Stat", SMB_path(path))>>} :
          IF st.err # NoErr
          THEN Return("GetFileInfo", <<path>>, "failed to stat SMB file",
                      st.err, NoRet, made, Tree)
          ELSE Return("GetFileInfo", <<path>>, NoErr, NoErr,
                      [NoRet EXCEPT !.info =
                         {FileInfoOf(Tree, SmbNode(path), path)}],
                      made, Tree)
  /\ UNCHANGED opFrame

\* smb.Client.ListDirectory
SMB_ListDirectory(path) ==
  /\ proto = "smb"
  /\ IF ~SMB_IsConnected THEN Reject("ListDirectory", <<path>>)
     ELSE \E rd \in {SmbReadDir(Tree, SMB_path(path))} :
          \E made \in {<<Call("ReadDir", SMB_path(path))>>} :
          IF rd.err # NoErr
          THEN Return("ListDirectory", <<path>>,
                      "failed to list SMB directory", rd.err, NoRet, made,
                      Tree)
          ELSE Return("ListDirectory", <<path>>, NoErr, NoErr,
                      [NoRet EXCEPT !.entries =
                         {FileInfoOf(Tree, q, path \o <<"/">> \o q[Len(q)]) :
                            q \in Children(Tree, SmbNode(path))}],
                      made, Tree)
  /\ UNCHANGED opFrame

\* smb.Client.FileExists: the error of Stat is a not-found error when its
\* text is one of the two texts isNotExistError knows.
SMB_FileExists(path, denied, wrapped) ==
  /\ proto = "smb"
  /\ IF ~SMB_IsConnected THEN Reject("FileExists", <<path>>)
     ELSE \E st \in {SmbStat(Tree, SMB_path(path), denied)} :
          \E made \in {<<Call("Stat", SMB_path(path))>>} :
          IF st.err # NoErr
          THEN IF isNotExistError(SmbErrorText(st.err, wrapped))
               THEN Return("FileExists", <<path>>, NoErr, st.err, NoRet, made,
                           Tree)
               ELSE Return("FileExists", <<path>>,
                           "failed to check SMB file existence", st.err,
                           NoRet, made, Tree)
          ELSE Return("FileExists", <<path>>, NoErr, NoErr,
                      [NoRet EXCEPT !.exists = TRUE], made, Tree)
  /\ UNCHANGED opFrame

\* smb.Client.CreateDirectory
SMB_CreateDirectory(path) ==
  /\ proto = "smb"
  /\ IF ~SMB_IsConnected THEN Reject("CreateDirectory", <<path>>)
     ELSE \E mk \in {SmbMkdir(Tree, SMB_path(path))} :
          \E made \in {<<Call("Mkdir", SMB_path(path))>>} :
          IF mk.err # NoErr
          THEN Return("CreateDirectory", <<path>>,
                      "failed to create SMB directory", mk.err, NoRet, made,
                      mk.tree)
          ELSE Return("CreateDirectory", <<path>>, NoErr, NoErr, NoRet, made,
                      mk.tree)
  /\ UNCHANGED opFrame

\* smb.Client.DeleteDirectory
SMB_DeleteDirectory(path) ==
  /\ proto = "smb"
  /\ IF ~SMB_IsConnected THEN Reject("DeleteDirectory", <<path>>)
     ELSE \E rm \in {SmbRemove(Tree, SMB_path(path))} :
          \E made \in {<<Call("Remove", SMB_path(path))>>} :
          IF rm.err # NoErr
          THEN Return("DeleteDirectory", <<path>>,
                      "failed to delete SMB directory", rm.err, NoRet, made,
                      rm.tree)
          ELSE Return("DeleteDirectory", <<path>>, NoErr, NoErr, NoRet, made,
                      rm.tree)
  /\ UNCHANGED opFrame

\* smb.Client.DeleteFile
SMB_DeleteFile(path) ==
  /\ proto = "smb"
  /\ IF ~SMB_IsConnected THEN Reject("DeleteFile", <<path>>)
     ELSE \E rm \in {SmbRemove(Tree, SMB_path(path))} :
          \E made \in {<<Call("Remove", SMB_path(path))>>} :
          IF rm.err # NoErr
          THEN Return("DeleteFile", <<path>>, "failed to delete SMB file",
                      rm.err, NoRet, made, rm.tree)
          ELSE Return("DeleteFile", <<path>>, NoErr, NoErr, NoRet, made,
                      rm.tree)
  /\ UNCHANGED opFrame

\* smb.Client.CopyFile.  The source is read by io.Copy after Create has
\* truncated the destination; reading a directory fails.
SMB_CopyFile(srcPath, dstPath) ==
  /\ proto = "smb"
  /\ IF ~SMB_IsConnected THEN Reject("CopyFile", <<srcPath, dstPath>>)
     ELSE \E op \in {SmbOpen(Tree, SMB_path(srcPath))} :
          \E cr \in {SmbCreate(Tree, SMB_path(dstPath))} :
          \E c1 \in {<<Call("Open", SMB_path(srcPath))>>} :
          \E c2 \in {c1 \o <<Call("Create", SMB_path(dstPath))>>} :
          \E c3 \in {c2 \o <<Call("io.Copy", SMB_path(dstPath))>>} :
          \E args \in {<<srcPath, dstPath>>} :
          IF op.err # NoErr
          THEN Return("CopyFile", args, "failed to open source file", op.err,
                      NoRet, c1, Tree)
          ELSE IF cr.err # NoErr
          THEN Return("CopyFile", args, "failed to create destination file",
                      cr.err, NoRet, c2, cr.tree)
          ELSE IF SmbNode(srcPath) \in cr.tree.dirs
          THEN Return("CopyFile", args, "failed to copy file", "EISDIR",
                      NoRet, c3, cr.tree)
          ELSE Return("CopyFile", args, NoErr, NoErr, NoRet, c3,
                      WithFile(cr.tree, SmbNode(dstPath),
                               ContentOf(cr.tree, SmbNode(srcPath))))
  /\ UNCHANGED opFrame

(***************************************************************************)
(* The WebDAV server, as the requests of the client reach it.  A request   *)
(* names its resource by a URL; the server answers with a status and       *)
(* leaves a tree.  A response is [err, status, tree]: err is the error of  *)
(* http.Client.Do (no response arrived), status the status code.           *)
(***************************************************************************)
\* The percent-decoding of a URL path.
RECURSIVE UnescapePath(_)
UnescapePath(path) ==
  IF path = <<>> THEN <<>>
  ELSE IF Len(path) >= 3 /\ SubSeq(path, 1, 3) = <<"%", "2", "0">>
  THEN <<" ">> \o UnescapePath(SubSeq(path, 4, Len(path)))
  ELSE IF Len(path) >= 3 /\ SubSeq(path, 1, 3) = <<"%", "2", "5">>
  THEN <<"%">> \o UnescapePath(SubSeq(path, 4, Len(path)))
  ELSE <<path[1]>> \o UnescapePath(Tail(path))

\* The path of a URL of the server, and the node it names.
DavPath(url) == UnescapePath(SubSeq(url, Len(URLPrefix) + 1, Len(url)))
DavNode(url) == Node(DavPath(url))

DavResponse(status, t) == [err |-> NoErr, status |-> status, tree |-> t]

\* What the client gets when the request meets a fault: no response, or the
\* status of the fault instead of the server's answer. A server may also
\* answer a probe with 200 or 204 where another answers 207.
DavFaults == {"none", "transport", "401", "403", "500"}
DavDo(fault, t, resp) ==
  IF fault = "none" THEN resp
  ELSE IF fault = "transport"
  THEN [err |-> "ECONNRESET", status |-> 0, tree |-> t]
  ELSE DavResponse(CASE fault = "401" -> 401
                     [] fault = "403" -> 403
                     [] fault = "500" -> 500
                     [] fault = "200" -> 200
                     [] fault = "204" -> 204, t)

\* PROPFIND url
DavPropfind(t, url) ==
  DavResponse(IF DavNode(url) \in Nodes(t) THEN 207 ELSE 404, t)

\* GET url
DavGet(t, url) ==
  DavResponse(IF DavNode(url) \in DOMAIN t.files THEN 200
              ELSE IF DavNode(url) \in t.dirs THEN 405 ELSE 404, t)

\* HEAD url
DavHead(t, url) ==
  DavResponse(IF DavNode(url) \in Nodes(t) THEN 200 ELSE 404, t)

\* PUT url
DavPut(t, url, content) ==
  IF DavNode(url) \in t.dirs THEN DavResponse(405, t)
  ELSE IF Parent(DavNode(url)) \notin t.dirs THEN DavResponse(409, t)
  ELSE DavResponse(IF DavNode(url) \in DOMAIN t.files THEN 204 ELSE 201,
                   WithFile(t, DavNode(url), content))

\* MKCOL url
DavMkcol(t, url) ==
  IF DavNode(url) \in Nodes(t) THEN DavResponse(405, t)
  ELSE IF Parent(DavNode(url)) \notin t.dirs THEN DavResponse(409, t)
  ELSE DavResponse(201, [t EXCEPT !.dirs = t.dirs \cup {DavNode(url)}])

\* DELETE url: the resource and everything below it.
DavDelete(t, url) ==
  IF DavNode(url) \notin Nodes(t) THEN DavResponse(404, t)
  ELSE DavResponse(204, Without(t, {q \in Nodes(t) : IsUnder(q, DavNode(url))}))

\* The tree with the resource at node from (and everything below it) copied
\* to node to, what was at to being replaced.
DavCopied(t, from, to) ==
  LET moved(q) == to \o SubSeq(q, Len(from) + 1, Len(q))
      rest == Without(t, {q \in Nodes(t) : IsUnder(q, to)})
      srcDirs == {q \in t.dirs : IsUnder(q, from)}
      srcFiles == {q \in DOMAIN t.files : IsUnder(q, from)}
      newFiles == {moved(q) : q \in srcFiles}
  IN  [dirs  |-> rest.dirs \cup {moved(q) : q \in srcDirs},
       files |-> [k \in DOMAIN rest.files \cup newFiles |->
                    IF k \in newFiles
                    THEN t.files[CHOOSE q \in srcFiles : moved(q) = k]
                    ELSE rest.files[k]]]

\* COPY url, Destination: dst.  The server has no room for a copy that would
\* reach below MaxDepth.
DavCopy(t, url, dst) ==
  IF DavNode(url) \notin Nodes(t) THEN DavResponse(404, t)
  ELSE IF IsUnder(DavNode(dst), DavNode(url)) THEN DavResponse(403, t)
  ELSE IF Parent(DavNode(dst)) \notin t.dirs THEN DavResponse(409, t)
  ELSE IF \E q \in Nodes(DavCopied(t, DavNode(url), DavNode(dst))) :
            Len(q) > MaxDepth
  THEN DavResponse(507, t)
  ELSE DavResponse(IF DavNode(dst) \in Nodes(t) THEN 204 ELSE 201,
                   DavCopied(t, DavNode(url), DavNode(dst)))

(***************************************************************************)
(* The WebDAV client (pkg/webdav).                                         *)
(***************************************************************************)
\* webdav.Client.IsConnected
WebDAV_IsConnected == connected

\* The probe of webdav.Client.Connect: a PROPFIND of the base URL.
WebDAV_probe(fault) == DavDo(fault, Tree, DavPropfind(Tree, URLString(cfgPath)))

\* The error Connect returns for the response of its probe.
WebDAV_probeErr(resp) ==
  IF resp.err # NoErr THEN "failed to connect to WebDAV server"
  ELSE IF resp.status # 207 /\ resp.status # 200
  THEN "WebDAV server returned status"
  ELSE NoErr

\* What a call leaves alone that changes at most c.connected.
davFrame == <<pathVars, pureVars, proto, cfgPath, mounted, client, conn, session, share,
              procMounts, kernelMount, openSessions>>

\* webdav.Client.Connect
WebDAV_Connect(fault) ==
  /\ proto = "webdav"
  /\ \E resp \in {WebDAV_probe(fault)} :
     /\ connected' = IF WebDAV_probeErr(resp) = NoErr THEN TRUE ELSE connected
     /\ Return("Connect", <<>>, WebDAV_probeErr(resp), resp.err,
               [NoRet EXCEPT !.status = resp.status],
               <<Call("PROPFIND", URLString(cfgPath))>>, Tree)
  /\ UNCHANGED davFrame

\* webdav.Client.Disconnect
WebDAV_Disconnect ==
  /\ proto = "webdav"
  /\ connected' = FALSE
  /\ Return("Disconnect", <<>>, NoErr, NoErr, NoRet, <<>>, Tree)
  /\ UNCHANGED davFrame

\* A TestConnection that disconnects the client when its probe fails.
WebDAV_TestConnection_Disconnects(fault) ==
  /\ proto = "webdav"
  /\ IF ~WebDAV_IsConnected
     THEN /\ Reject("TestConnection", <<>>)
          /\ UNCHANGED connected
     ELSE \E resp \in {WebDAV_probe(fault)} :
          /\ connected' = (WebDAV_probeErr(resp) = NoErr)
          /\ Return("TestConnection", <<>>, WebDAV_probeErr(resp), resp.err,
                    [NoRet EXCEPT !.status = resp.status],
                    <<Call("PROPFIND", URLString(cfgPath))>>, Tree)
  /\ UNCHANGED davFrame

\* webdav.Client.TestConnection: Connect is run again.
WebDAV_TestConnection(fault) ==
  /\ proto = "webdav"
  /\ IF ~WebDAV_IsConnected
     THEN /\ Reject("TestConnection", <<>>)
          /\ UNCHANGED connected
     ELSE \E resp \in {WebDAV_probe(fault)} :
          /\ connected' = IF WebDAV_probeErr(resp) = NoErr THEN TRUE
                          ELSE connected
          /\ Return("TestConnection", <<>>, WebDAV_probeErr(resp), resp.err,
                    [NoRet EXCEPT !.status = resp.status],
                    <<Call("PROPFIND", URLString(cfgPath))>>, Tree)
  /\ UNCHANGED davFrame

\* How an operation of the WebDAV client ends on a response: the error of
\* the transport, the error for a status that is not ok, or the value.
WebDAV_Return(op, args, resp, ok, transportErr, value, made) ==
  IF resp.err # NoErr
  THEN Return(op, args, transportErr, resp.err, NoRet, made, resp.tree)
  ELSE IF ~ok
  THEN Return(op, args, "WebDAV server returned status", NoErr,
              [NoRet EXCEPT !.status = resp.status], made, resp.tree)
  ELSE Return(op, args, NoErr, NoErr,
              [value EXCEPT !.status = resp.status], made, resp.tree)

\* A check that takes 200 alone for success.
Is2xx_OnlyOK(status) == status = 200

\* A status of the 2xx class.
Is2xx(status) == ~(status < 200 \/ status >= 300)

\* webdav.Client.ReadFile
WebDAV_ReadFile(path) ==
  /\ proto = "webdav"
  /\ IF ~WebDAV_IsConnected THEN Reject("ReadFile", <<path>>)
     ELSE \E fullURL \in {WebDAV_resolveURL(cfgPath, path)} :
          \E resp \in {DavGet(Tree, fullURL)} :
          WebDAV_Return("ReadFile", <<path>>, resp, resp.status = 200,
                        "failed to retrieve WebDAV file",
                        [NoRet EXCEPT !.data = ContentOf(Tree, DavNode(fullURL))],
                        <<Call("GET", fullURL)>>)
  /\ UNCHANGED opFrame

\* webdav.Client.WriteFile
WebDAV_WriteFile(path, data) ==
  /\ proto = "webdav"
  /\ IF ~WebDAV_IsConnected THEN Reject("WriteFile", <<path, data>>)
     ELSE \E fullURL \in {WebDAV_resolveURL(cfgPath, path)} :
          \E resp \in {DavPut(Tree, fullURL, data)} :
          WebDAV_Return("WriteFile", <<path, data>>, resp, Is2xx(resp.status),
                        "failed to upload WebDAV file", NoRet,
                        <<Call("PUT", fullURL)>>)
  /\ UNCHANGED opFrame

\* webdav.Client.GetFileInfo: the size is the Content-Length of the response
\* (none for a collection); the path is a directory when it ends in "/" or
\* the Content-Type is httpd/unix-directory, which the server sends for a
\* collection when unixDir holds.
WebDAV_GetFileInfo(path, unixDir, fault) ==
  /\ proto = "webdav"
  /\ IF ~WebDAV_IsConnected THEN Reject("GetFileInfo", <<path>>)
     ELSE \E fullURL \in {WebDAV_resolveURL(cfgPath, path)} :
          \E resp \in {DavDo(fault, Tree, DavHead(Tree, fullURL))} :
          WebDAV_Return("GetFileInfo", <<path>>, resp, resp.status = 200,
                        "failed to get WebDAV file info",
                        [NoRet EXCEPT !.info =
                           {[name  |-> Base(path),
                             size  |-> Len(ContentOf(Tree, DavNode(fullURL))),
                             isDir |-> \/ path[Len(path)] = "/"
                                       \/ (unixDir /\ DavNode(fullURL) \in dirs),
                             path  |-> path]}],
                        <<Call("HEAD", fullURL)>>)
  /\ UNCHANGED opFrame

\* The path of a node, as the server prints it in an href.
RECURSIVE NodePath(_)
NodePath(k) ==
  IF k = <<>> THEN <<>> ELSE NodePath(Parent(k)) \o <<"/">> \o k[Len(k)]

\* What servers put in the multi-status response of a PROPFIND: the href is
\* a path or a full URL, the href of a collection ends in "/" or not, and a
\* displayname is sent or not.
DavServers ==
  { [fullHref |-> FALSE, slash |-> TRUE,  named |-> TRUE],
    [fullHref |-> FALSE, slash |-> TRUE,  named |-> FALSE],
    [fullHref |-> TRUE,  slash |-> FALSE, named |-> TRUE] }

\* The href of node k in a response of the server.
DavHref(t, k, server) ==
  (IF server.fullHref THEN URLPrefix ELSE <<>>)
    \o EscapePath(NodePath(k))
    \o (IF server.slash /\ k \in t.dirs THEN <<"/">> ELSE <<>>)

\* The nodes a PROPFIND of depth 1 has a response for: the resource and, for
\* a collection, its members.
DavMembers(t, url) == {DavNode(url)} \cup Children(t, DavNode(url))

\* strings.TrimPrefix(s, prefix)
TrimPrefix(str, prefix) ==
  IF HasPrefix(str, prefix) THEN SubSeq(str, Len(prefix) + 1, Len(str))
  ELSE str

\* strings.TrimSuffix(s, "/")
TrimSuffixSlash(str) ==
  IF str # <<>> /\ str[Len(str)] = "/" THEN SubSeq(str, 1, Len(str) - 1)
  ELSE str

\* The name ListDirectory gives an entry: the text that starts 16 characters
\* after the start of the 15 characters of "<D:displayname>", that is the
\* display name without its first character, or the last element of the href
\* when no display name is sent.
WebDAV_displayName(k, href, server) ==
  IF server.named THEN Tail(k[Len(k)]) ELSE Base(href)

\* The relPath ListDirectory gives an entry.
WebDAV_relPath(href, fullURL, displayName) ==
  IF TrimPrefix(href, fullURL) = <<>> THEN displayName
  ELSE TrimPrefix(TrimPrefix(href, fullURL), <<"/">>)

\* The entry ListDirectory makes of the response for node k.
WebDAV_entry(t, k, href, fullURL, server) ==
  [name  |-> WebDAV_displayName(k, href, server),
   size  |-> Len(ContentOf(t, k)),
   isDir |-> k \in t.dirs,
   path  |-> WebDAV_relPath(href, fullURL,
                            WebDAV_displayName(k, href, server))]

\* webdav.Client.ListDirectory: a response is skipped when its href is the
\* URL asked for.
WebDAV_ListDirectory(path, server, fault) ==
  /\ proto = "webdav"
  /\ IF ~WebDAV_IsConnected THEN Reject("ListDirectory", <<path>>)
     ELSE \E fullURL \in {WebDAV_resolveURL(cfgPath, path)} :
          \E resp \in {DavDo(fault, Tree, DavPropfind(Tree, fullURL))} :
          \E listed \in {{k \in DavMembers(Tree, fullURL) :
                            /\ k # <<>>
                            /\ DavHref(Tree, k, server) # fullURL
                            /\ DavHref(Tree, k, server)
                                 # TrimSuffixSlash(fullURL)}} :
          WebDAV_Return("ListDirectory", <<path>>, resp, resp.status = 207,
                        "failed to list WebDAV directory",
                        [NoRet EXCEPT !.entries =
                           {WebDAV_entry(Tree, k, DavHref(Tree, k, server),
                                         fullURL, server) : k \in listed}],
                        <<Call("PROPFIND", fullURL)>>)
  /\ UNCHANGED opFrame

\* webdav.Client.FileExists: every status but 200 is reported as absent.
WebDAV_FileExists(path, fault) ==
  /\ proto = "webdav"
  /\ IF ~WebDAV_IsConnected THEN Reject("FileExists", <<path>>)
     ELSE \E fullURL \in {WebDAV_resolveURL(cfgPath, path)} :
          \E resp \in {DavDo(fault, Tree, DavHead(Tree, fullURL))} :
          WebDAV_Return("FileExists", <<path>>, resp, TRUE,
                        "failed to check WebDAV file existence",
                        [NoRet EXCEPT !.exists = resp.status = 200],
                        <<Call("HEAD", fullURL)>>)
  /\ UNCHANGED opFrame

\* webdav.Client.CreateDirectory
WebDAV_CreateDirectory(path) ==
  /\ proto = "webdav"
  /\ IF ~WebDAV_IsConnected THEN Reject("CreateDirectory", <<path>>)
     ELSE \E fullURL \in {WebDAV_resolveURL(cfgPath, path)} :
          \E resp \in {DavMkcol(Tree, fullURL)} :
          WebDAV_Return("CreateDirectory", <<path>>, resp, Is2xx(resp.status),
                        "failed to create WebDAV directory", NoRet,
                        <<Call("MKCOL", fullURL)>>)
  /\ UNCHANGED opFrame

\* webdav.Client.DeleteDirectory
WebDAV_DeleteDirectory(path) ==
  /\ proto = "webdav"
  /\ IF ~WebDAV_IsConnected THEN Reject("DeleteDirectory", <<path>>)
     ELSE \E fullURL \in {WebDAV_resolveURL(cfgPath, path)} :
          \E resp \in {DavDelete(Tree, fullURL)} :
          WebDAV_Return("DeleteDirectory", <<path>>, resp, Is2xx(resp.status),
                        "failed to delete WebDAV directory", NoRet,
                        <<Call("DELETE", fullURL)>>)
  /\ UNCHANGED opFrame

\* webdav.Client.DeleteFile
WebDAV_DeleteFile(path) ==
  /\ proto = "webdav"
  /\ IF ~WebDAV_IsConnected THEN Reject("DeleteFile", <<path>>)
     ELSE \E fullURL \in {WebDAV_resolveURL(cfgPath, path)} :
          \E resp \in {DavDelete(Tree, fullURL)} :
          WebDAV_Return("DeleteFile", <<path>>, resp, Is2xx(resp.status),
                        "failed to delete WebDAV file", NoRet,
                        <<Call("DELETE", fullURL)>>)
  /\ UNCHANGED opFrame

\* webdav.Client.CopyFile
WebDAV_CopyFile(srcPath, dstPath) ==
  /\ proto = "webdav"
  /\ IF ~WebDAV_IsConnected THEN Reject("CopyFile", <<srcPath, dstPath>>)
     ELSE \E srcURL \in {WebDAV_resolveURL(cfgPath, srcPath)} :
          \E dstURL \in {WebDAV_resolveURL(cfgPath, dstPath)} :
          \E resp \in {DavCopy(Tree, srcURL, dstURL)} :
          WebDAV_Return("CopyFile", <<srcPath, dstPath>>, resp,
                        Is2xx(resp.status), "failed to copy WebDAV file",
                        NoRet, <<Call("COPY", srcURL)>>)
  /\ UNCHANGED opFrame

(***************************************************************************)
(* The environment of the client.                                          *)
(***************************************************************************)
\* Whether /proc/mounts can be opened changes (the process runs out of file
\* descriptors or gets them back; /proc is mounted or unmounted).
Env_ProcMounts ==
  /\ proto = "nfs"
  /\ procMounts' = ~procMounts
  /\ last' = [InitLast EXCEPT !.op = "env"]
  /\ ret' = NoRet
  /\ calls' = <<>>
  /\ UNCHANGED <<pathVars, pureVars, proto, cfgPath, clientVars, backendVars>>

(***************************************************************************)
(* The specification of one client and its backend: a client of some       *)
(* protocol is constructed, and any of its methods is called with any of   *)
(* the caller paths, contents and backend faults.                          *)
(***************************************************************************)
Init ==
  /\ reqPath = <<>>
  /\ reqBase = <<>>
  /\ resolver = "none"
  /\ resolved = <<>>
  /\ proto \in Protocols
  /\ cfgPath = BasePath
  /\ InitClient
  /\ procMounts = TRUE
  /\ kernelMount = FALSE
  /\ openSessions = 0
  /\ dirs \in {{<<>>, Node(BasePath)}, {<<>>}}
  /\ files = <<>>
  /\ last = InitLast
  /\ ret = NoRet
  /\ calls = <<>>
  /\ multistatus = NoListing
  /\ factory = NoFactory
  /\ pending = NoPending

LocalNext ==
  \/ \E fault \in BOOLEAN : Local_Connect(fault)
  \/ Local_Disconnect
  \/ \E fault \in BOOLEAN : Local_TestConnection(fault)
  \/ \E path \in CallerPaths : Local_ReadFile(path)
  \/ \E path \in CallerPaths, data \in Data : Local_WriteFile(path, data)
  \/ \E path \in CallerPaths : Local_GetFileInfo(path)
  \/ \E path \in ListPaths : Local_ListDirectory(path)
  \/ \E path \in CallerPaths, fault \in BOOLEAN : Local_FileExists(path, fault)
  \/ \E path \in CallerPaths : Local_CreateDirectory(path)
  \/ \E path \in CallerPaths : Local_DeleteDirectory(path)
  \/ \E path \in CallerPaths : Local_DeleteFile(path)
  \/ \E src \in CallerPaths, dst \in CallerPaths : Local_CopyFile(src, dst)

NFSNext ==
  \/ \E fault \in {"none", "os.MkdirAll", "syscall.Mount"} : NFS_Connect(fault)
  \/ \E fault \in BOOLEAN : NFS_Disconnect(fault)
  \/ \E fault \in BOOLEAN : NFS_TestConnection(fault)
  \/ \E path \in CallerPaths : NFS_ReadFile(path)
  \/ \E path \in CallerPaths, data \in Data : NFS_WriteFile(path, data)
  \/ \E path \in CallerPaths : NFS_GetFileInfo(path)
  \/ \E path \in ListPaths : NFS_ListDirectory(path)
  \/ \E path \in CallerPaths, fault \in BOOLEAN : NFS_FileExists(path, fault)
  \/ \E path \in CallerPaths : NFS_CreateDirectory(path)
  \/ \E path \in CallerPaths : NFS_DeleteDirectory(path)
  \/ \E path \in CallerPaths : NFS_DeleteFile(path)
  \/ \E src \in CallerPaths, dst \in CallerPaths : NFS_CopyFile(src, dst)

FTPNext ==
  \/ \E fault \in {"none", "Dial", "Login"}, quitFails \in BOOLEAN :
       FTP_Connect(fault, quitFails)
  \/ \E fault \in BOOLEAN : FTP_Disconnect(fault)
  \/ \E fault \in BOOLEAN : FTP_TestConnection(fault)
  \/ \E path \in CallerPaths : FTP_ReadFile(path)
  \/ \E path \in CallerPaths, data \in Data : FTP_WriteFile(path, data)
  \/ \E path \in CallerPaths : FTP_GetFileInfo(path)
  \/ \E path \in ListPaths, lenient \in BOOLEAN :
       FTP_ListDirectory(path, lenient)
  \/ \E path \in CallerPaths, lenient \in BOOLEAN :
       FTP_FileExists(path, lenient)
  \/ \E path \in CallerPaths : FTP_CreateDirectory(path)
  \/ \E path \in CallerPaths : FTP_DeleteDirectory(path)
  \/ \E path \in CallerPaths : FTP_DeleteFile(path)
  \/ \E src \in CallerPaths, dst \in CallerPaths : FTP_CopyFile(src, dst)

SMBNext ==
  \/ \E fault \in {"none", "net.Dial", "Dialer.Dial"},
          faults \in SUBSET {"Logoff", "Close"} : SMB_Connect(fault, faults)
  \/ \E faults \in SUBSET SmbTeardown : SMB_Disconnect(faults)
  \/ \E fault \in BOOLEAN : SMB_TestConnection(fault)
  \/ \E path \in CallerPaths : SMB_ReadFile(path)
  \/ \E path \in CallerPaths, data \in Data : SMB_WriteFile(path, data)
  \/ \E path \in CallerPaths : SMB_GetFileInfo(path)
  \/ \E path \in ListPaths : SMB_ListDirectory(path)
  \/ \E path \in CallerPaths, denied \in BOOLEAN, wrapped \in BOOLEAN :
       SMB_FileExists(path, denied, wrapped)
  \/ \E path \in CallerPaths : SMB_CreateDirectory(path)
  \/ \E path \in CallerPaths : SMB_DeleteDirectory(path)
  \/ \E path \in CallerPaths : SMB_DeleteFile(path)
  \/ \E src \in CallerPaths, dst \in CallerPaths : SMB_CopyFile(src, dst)

WebDAVNext ==
  \/ \E fault \in {"none", "transport", "401", "200", "204"} :
       WebDAV_Connect(fault)
  \/ WebDAV_Disconnect
  \/ \E fault \in {"none", "transport", "401"} : WebDAV_TestConnection(fault)
  \/ \E path \in CallerPaths : WebDAV_ReadFile(path)
  \/ \E path \in CallerPaths, data \in Data : WebDAV_WriteFile(path, data)
  \/ \E path \in CallerPaths, unixDir \in BOOLEAN,
          fault \in {"none", "transport", "204"} :
       WebDAV_GetFileInfo(path, unixDir, fault)
  \/ \E path \in ListPaths, server \in DavServers, fault \in {"none", "200"} :
       WebDAV_ListDirectory(path, server, fault)
  \/ \E path \in CallerPaths, fault \in DavFaults :
       WebDAV_FileExists(path, fault)
  \/ \E path \in CallerPaths : WebDAV_CreateDirectory(path)
  \/ \E path \in CallerPaths : WebDAV_DeleteDirectory(path)
  \/ \E path \in CallerPaths : WebDAV_DeleteFile(path)
  \/ \E src \in CallerPaths, dst \in CallerPaths : WebDAV_CopyFile(src, dst)

EnvNext ==
  \/ Env_ProcMounts

AccessorNext ==
  \/ Client_GetProtocol
  \/ Client_GetConfig

Next ==
  \/ LocalNext
  \/ NFSNext
  \/ FTPNext
  \/ SMBNext
  \/ WebDAVNext
  \/ EnvNext
  \/ AccessorNext

Spec == Init /\ [][Next]_vars

(***************************************************************************)
(* The multi-status parser of webdav.Client.ListDirectory, on the text of  *)
(* the response body. Offsets are those of Go: the first byte of a string  *)
(* is at offset 0 and strings.Index returns -1 when there is no match.     *)
(***************************************************************************)
\* The markers the parser searches for.
DavTag ==
  [respOpen |->
      <<"<", "D", ":", "r", "e", "s", "p", "o", "n", "s", "e", ">">>,
   respClose |->
      <<"<", "/", "D", ":", "r", "e", "s", "p", "o", "n", "s", "e", ">">>,
   hrefOpen |->
      <<"<", "D", ":", "h", "r", "e", "f", ">">>,
   hrefClose |->
      <<"<", "/", "D", ":", "h", "r", "e", "f", ">">>,
   nameOpen |->
      <<"<", "D", ":", "d", "i", "s", "p", "l", "a", "y", "n", "a", "m",
        "e", ">">>,
   nameClose |->
      <<"<", "/", "D", ":", "d", "i", "s", "p", "l", "a", "y", "n", "a",
        "m", "e", ">">>,
   lenOpen |->
      <<"<", "D", ":", "g", "e", "t", "c", "o", "n", "t", "e", "n", "t",
        "l", "e", "n", "g", "t", "h", ">">>,
   lenClose |->
      <<"<", "/", "D", ":", "g", "e", "t", "c", "o", "n", "t", "e", "n",
        "t", "l", "e", "n", "g", "t", "h", ">">>,
   modOpen |->
      <<"<", "D", ":", "g", "e", "t", "l", "a", "s", "t", "m", "o", "d",
        "i", "f", "i", "e", "d", ">">>,
   modClose |->
      <<"<", "/", "D", ":", "g", "e", "t", "l", "a", "s", "t", "m", "o",
        "d", "i", "f", "i", "e", "d", ">">>,
   collection |->
      <<"<", "D", ":", "r", "e", "s", "o", "u", "r", "c", "e", "t", "y",
        "p", "e", ">", "<", "D", ":", "c", "o", "l", "l", "e", "c", "t",
        "i", "o", "n", "/", ">", "<", "/", "D", ":", "r", "e", "s", "o",
        "u", "r", "c", "e", "t", "y", "p", "e", ">">>,
   directory |->
      <<"<", "D", ":", "r", "e", "s", "o", "u", "r", "c", "e", "t", "y",
        "p", "e", ">", "<", "D", ":", "d", "i", "r", "e", "c", "t", "o",
        "r", "y", "/", ">", "<", "/", "D", ":", "r", "e", "s", "o", "u",
        "r", "c", "e", "t", "y", "p", "e", ">">> ]

\* A Last-Modified value in the layout of time.RFC1123.
RFC1123Date ==
  <<"M", "o", "n", ",", " ", "0", "2", " ", "J", "a", "n", " ", "2", "0",
    "0", "6", " ", "1", "5", ":", "0", "4", ":", "0", "5", " ", "G", "M",
    "T">>

\* strings.Index(s, substr), substr not empty: the offset of the first of
\* the places where substr occurs in s.
Occurrences(s, substr) ==
  {i \in 1..(Len(s) - Len(substr) + 1) :
     s[i] = substr[1] /\ SubSeq(s, i, i + Len(substr) - 1) = substr}
Index(s, substr) ==
  IF Occurrences(s, substr) = {} THEN -1
  ELSE (CHOOSE i \in Occurrences(s, substr) :
          \A j \in Occurrences(s, substr) : i <= j) - 1

\* Whether the slice expression s[lo:hi] is in range; it panics otherwise.
SliceInRange(s, lo, hi) == 0 <= lo /\ lo <= hi /\ hi <= Len(s)

\* s[lo:hi]
Slice(s, lo, hi) == SubSeq(s, lo + 1, hi)

\* strings.Split(s, sep), sep not empty.
RECURSIVE Split(_, _)
Split(s, sep) ==
  IF Index(s, sep) = -1 THEN <<s>>
  ELSE <<Slice(s, 0, Index(s, sep))>>
         \o Split(Slice(s, Index(s, sep) + Len(sep), Len(s)), sep)

\* strconv.ParseInt(s, 10, 64) of a text of decimal digits with an optional
\* sign: whether it parses, and the value.
Digits == <<"0", "1", "2", "3", "4", "5", "6", "7", "8", "9">>
RECURSIVE DecimalValue(_)
DecimalValue(s) ==
  IF s = <<>> THEN 0
  ELSE 10 * DecimalValue(SubSeq(s, 1, Len(s) - 1))
         + (CHOOSE d \in 1..10 : Digits[d] = s[Len(s)]) - 1
ParseInt(s) ==
  IF s # <<>> /\ s[1] \in {"+", "-"}
  THEN IF Len(s) > 1 /\ \A i \in 2..Len(s) : \E d \in 1..10 : Digits[d] = s[i]
       THEN [ok |-> TRUE,
             value |-> (IF s[1] = "-" THEN -1 ELSE 1) * DecimalValue(Tail(s))]
       ELSE [ok |-> FALSE, value |-> 0]
  ELSE IF s # <<>> /\ \A i \in 1..Len(s) : \E d \in 1..10 : Digits[d] = s[i]
  THEN [ok |-> TRUE, value |-> DecimalValue(s)]
  ELSE [ok |-> FALSE, value |-> 0]

\* The text between two markers of a record, as the parser cuts it: from
\* skip bytes after the start of the opening marker to the closing marker.
WebDAV_hasField(response, open, close) ==
  Index(response, open) # -1 /\ Index(response, close) # -1
WebDAV_fieldInRange(response, open, close, skip) ==
  SliceInRange(response, Index(response, open) + skip, Index(response, close))
WebDAV_field(response, open, close, skip) ==
  Slice(response, Index(response, open) + skip, Index(response, close))

\* The slice expression of a marker pair that is found panics when the
\* closing marker starts before the end of the cut.
WebDAV_fieldPanics(response, open, close, skip) ==
  /\ WebDAV_hasField(response, open, close)
  /\ ~WebDAV_fieldInRange(response, open, close, skip)

\* href := response[hrefStart+8 : hrefEnd]
WebDAV_href(response) ==
  WebDAV_field(response, DavTag.hrefOpen, DavTag.hrefClose, 8)

\* displayName: the last element of the href, or response[nameStart+16 :
\* nameEnd] when both markers are found.
WebDAV_parsedName(response) ==
  IF WebDAV_hasField(response, DavTag.nameOpen, DavTag.nameClose)
  THEN WebDAV_field(response, DavTag.nameOpen, DavTag.nameClose, 16)
  ELSE Base(WebDAV_href(response))

\* size: response[sizeStart+20 : sizeEnd] when it parses as an integer.
WebDAV_parsedSize(response) ==
  IF /\ WebDAV_hasField(response, DavTag.lenOpen, DavTag.lenClose)
     /\ ParseInt(WebDAV_field(response, DavTag.lenOpen, DavTag.lenClose,
                              20)).ok
  THEN ParseInt(WebDAV_field(response, DavTag.lenOpen, DavTag.lenClose,
                             20)).value
  ELSE 0

\* modTime: response[modStart+20 : modEnd] when time.Parse accepts it, the
\* current time otherwise.
WebDAV_parsedModTime(response) ==
  IF /\ WebDAV_hasField(response, DavTag.modOpen, DavTag.modClose)
     /\ WebDAV_field(response, DavTag.modOpen, DavTag.modClose, 20)
          = RFC1123Date
  THEN "2006-01-02 15:04:05 GMT"
  ELSE "time.Now()"

\* isDir: one of the two collection markers is in the record.
WebDAV_parsedIsDir(response) ==
  Contains(response, DavTag.collection) \/ Contains(response, DavTag.directory)

\* What the loop body makes of a record cut at its end marker: it is
\* skipped, it panics, or it appends an entry.
WebDAV_parseRecord(response, fullURL) ==
  IF ~WebDAV_hasField(response, DavTag.hrefOpen, DavTag.hrefClose)
  THEN [kind |-> "skip"]
  ELSE IF ~WebDAV_fieldInRange(response, DavTag.hrefOpen, DavTag.hrefClose, 8)
  THEN [kind |-> "panic"]
  ELSE IF \/ WebDAV_href(response) = fullURL
          \/ WebDAV_href(response) = TrimSuffixSlash(fullURL)
  THEN [kind |-> "skip"]
  ELSE IF \/ WebDAV_fieldPanics(response, DavTag.nameOpen, DavTag.nameClose, 16)
          \/ WebDAV_fieldPanics(response, DavTag.lenOpen, DavTag.lenClose, 20)
          \/ WebDAV_fieldPanics(response, DavTag.modOpen, DavTag.modClose, 20)
  THEN [kind |-> "panic"]
  ELSE [kind |-> "entry",
        name |-> WebDAV_parsedName(response),
        size |-> WebDAV_parsedSize(response),
        modTime |-> WebDAV_parsedModTime(response),
        isDir |-> WebDAV_parsedIsDir(response),
        path |-> WebDAV_relPath(WebDAV_href(response), fullURL,
                                WebDAV_parsedName(response))]

\* The loop over responses[1:]: a piece without an end marker is skipped.
RECURSIVE WebDAV_parsePieces(_, _)
WebDAV_parsePieces(pieces, fullURL) ==
  IF pieces = <<>> THEN [panic |-> FALSE, files |-> <<>>]
  ELSE IF Index(Head(pieces), DavTag.respClose) = -1
  THEN WebDAV_parsePieces(Tail(pieces), fullURL)
  ELSE IF WebDAV_parseRecord(
            Slice(Head(pieces), 0, Index(Head(pieces), DavTag.respClose)),
            fullURL).kind = "panic"
  THEN [panic |-> TRUE, files |-> <<>>]
  ELSE IF WebDAV_parseRecord(
            Slice(Head(pieces), 0, Index(Head(pieces), DavTag.respClose)),
            fullURL).kind = "skip"
  THEN WebDAV_parsePieces(Tail(pieces), fullURL)
  ELSE [panic |-> WebDAV_parsePieces(Tail(pieces), fullURL).panic,
        files |->
          IF WebDAV_parsePieces(Tail(pieces), fullURL).panic THEN <<>>
          ELSE <<WebDAV_parseRecord(
                   Slice(Head(pieces), 0,
                         Index(Head(pieces), DavTag.respClose)),
                   fullURL)>>
                 \o WebDAV_parsePieces(Tail(pieces), fullURL).files]

\* What ListDirectory makes of the body of a 207 response: the goroutine
\* panics, or the entries are returned with a nil error.
WebDAV_parseBody(body, fullURL) ==
  WebDAV_parsePieces(Tail(Split(body, DavTag.respOpen)), fullURL)

(***************************************************************************)
(* The parser specification: a multi-status body is put together from      *)
(* records whose markers are well formed or malformed, and the parser of   *)
(* ListDirectory is applied to it for the URL that was listed.             *)
(***************************************************************************)
\* How a property of a record is written: not at all, well formed, with an
\* empty value, without its closing marker, or with the closing marker
\* before the opening one.
Shapes == {"absent", "ok", "empty", "unterminated", "reversed"}

DavProperty(open, close, text, shape) ==
  CASE shape = "absent"       -> <<>>
    [] shape = "ok"           -> open \o text \o close
    [] shape = "empty"        -> open \o close
    [] shape = "unterminated" -> open \o text
    [] shape = "reversed"     -> close \o text \o open

\* The text of a record.
DavRecordText(r) ==
  DavTag.respOpen
    \o DavProperty(DavTag.hrefOpen, DavTag.hrefClose, r.href, r.hrefShape)
    \o DavProperty(DavTag.nameOpen, DavTag.nameClose, r.name, r.nameShape)
    \o DavProperty(DavTag.lenOpen, DavTag.lenClose, r.len, r.lenShape)
    \o DavProperty(DavTag.modOpen, DavTag.modClose, RFC1123Date, r.modShape)
    \o (IF r.coll THEN DavTag.collection ELSE <<>>)
    \o (IF r.closed THEN DavTag.respClose ELSE <<>>)

\* The text of a body: its records one after the other.
RECURSIVE DavBodyText(_)
DavBodyText(records) ==
  IF records = <<>> THEN <<>>
  ELSE DavRecordText(Head(records)) \o DavBodyText(Tail(records))

\* The URLs listed: the directory d of the base /b, and the root of a server
\* whose base URL has no path.
DavURLs ==
  { WebDAV_resolveURL(BaseB, <<"d">>), WebDAV_resolveURL(<<>>, <<"/">>) }

\* The record of the listed collection itself, its href being the URL listed
\* with or without a trailing separator.
DavSelfRecord(fullURL, slash) ==
  [href |-> TrimSuffixSlash(fullURL) \o (IF slash THEN <<"/">> ELSE <<>>),
   hrefShape |-> "ok", name |-> <<"d">>, nameShape |-> "ok",
   len |-> <<>>, lenShape |-> "absent", modShape |-> "ok",
   coll |-> TRUE, closed |-> TRUE]

\* The records of two members: the file f of 5 bytes and the collection g.
DavFileRecord(fullURL) ==
  [href |-> TrimSuffixSlash(fullURL) \o <<"/", "f">>,
   hrefShape |-> "ok", name |-> <<"f">>, nameShape |-> "ok",
   len |-> <<"5">>, lenShape |-> "ok", modShape |-> "ok",
   coll |-> FALSE, closed |-> TRUE]
DavDirRecord(fullURL) ==
  [href |-> TrimSuffixSlash(fullURL) \o <<"/", "g", "/">>,
   hrefShape |-> "ok", name |-> <<"g">>, nameShape |-> "ok",
   len |-> <<>>, lenShape |-> "absent", modShape |-> "absent",
   coll |-> TRUE, closed |-> TRUE]

\* The record of a member whose content length the server gives as -5.
DavNegativeRecord(fullURL) ==
  [href |-> TrimSuffixSlash(fullURL) \o <<"/", "n">>,
   hrefShape |-> "ok", name |-> <<"n">>, nameShape |-> "absent",
   len |-> <<"-", "5">>, lenShape |-> "ok", modShape |-> "absent",
   coll |-> FALSE, closed |-> TRUE]

\* The member lists of a well-formed body: none, one or two members.
DavChildren(fullURL) ==
  { <<>>, <<DavFileRecord(fullURL)>>, <<DavDirRecord(fullURL)>>,
    <<DavNegativeRecord(fullURL)>>,
    <<DavFileRecord(fullURL), DavDirRecord(fullURL)>>,
    <<DavDirRecord(fullURL), DavFileRecord(fullURL)>> }

\* The record of member p of 12 bytes with its markers in any shape.
DavProbeRecords(fullURL) ==
  { [href |-> TrimSuffixSlash(fullURL) \o <<"/", "p">>,
     hrefShape |-> hs, name |-> <<"p">>, nameShape |-> ns,
     len |-> <<"1", "2">>, lenShape |-> ls, modShape |-> ms,
     coll |-> FALSE, closed |-> closed] :
       hs \in Shapes, ns \in Shapes, ls \in Shapes, ms \in Shapes,
       closed \in BOOLEAN }

\* ListDirectory of fullURL answered with the given records, and what the
\* parser makes of their text.
Parsed(fullURL, records) ==
  [fullURL |-> fullURL,
   records |-> records,
   body |-> DavBodyText(records),
   out |-> WebDAV_parseBody(DavBodyText(records), fullURL)]

\* A well-formed body: the record of the collection and those of its members.
ParseListing ==
  /\ multistatus = NoListing
  /\ \E fullURL \in DavURLs, slash \in BOOLEAN :
       \E children \in DavChildren(fullURL) :
         multistatus' =
           Parsed(fullURL, <<DavSelfRecord(fullURL, slash)>> \o children)
  /\ UNCHANGED <<pathVars, lifeVars, factory, pending>>

\* A body with a record whose markers are malformed or missing, between the
\* record of the collection and the record of a member.
ParseProbe ==
  /\ multistatus = NoListing
  /\ \E fullURL \in DavURLs :
       \E probe \in DavProbeRecords(fullURL) :
         multistatus' =
           Parsed(fullURL, <<DavSelfRecord(fullURL, FALSE), probe,
                             DavFileRecord(fullURL)>>)
  /\ UNCHANGED <<pathVars, lifeVars, factory, pending>>

InitParse ==
  /\ reqPath = <<>>
  /\ reqBase = <<>>
  /\ resolver = "none"
  /\ resolved = <<>>
  /\ proto = "webdav"
  /\ cfgPath = BasePath
  /\ InitClient
  /\ procMounts = TRUE
  /\ kernelMount = FALSE
  /\ openSessions = 0
  /\ dirs = {<<>>}
  /\ files = <<>>
  /\ last = InitLast
  /\ ret = NoRet
  /\ calls = <<>>
  /\ multistatus = NoListing
  /\ factory = NoFactory
  /\ pending = NoPending

NextParse ==
  \/ ParseListing
  \/ ParseProbe

SpecParse == InitParse /\ [][NextParse]_vars

(***************************************************************************)
(* The factory (pkg/factory). A setting is a value with its dynamic type;  *)
(* a settings map gives every key a setting, Missing for a key that is     *)
(* not in the map. A float64 is written in tenths (80807 is 8080.7).       *)
(***************************************************************************)
StringSetting(s) == [type |-> "string", val |-> s]
IntSetting(n) == [type |-> "int", val |-> n]
Float64Setting(tenths) == [type |-> "float64", val |-> tenths]

\* int(floatNum): the fraction is discarded, towards zero.
IntOfFloat(tenths) ==
  IF tenths >= 0 THEN tenths \div 10 ELSE -((-tenths) \div 10)

\* factory.GetStringSetting
GetStringSetting_NoDefault(settings, key, defaultValue) ==
  IF settings[key].type = "string" THEN settings[key].val ELSE ""
GetStringSetting(settings, key, defaultValue) ==
  IF settings[key].type # "missing" /\ settings[key].type = "string"
  THEN settings[key].val
  ELSE defaultValue

\* factory.GetIntSetting
GetIntSetting_NoFloat(settings, key, defaultValue) ==
  IF settings[key].type = "int" THEN settings[key].val ELSE defaultValue
GetIntSetting(settings, key, defaultValue) ==
  IF settings[key].type # "missing" /\ settings[key].type = "int"
  THEN settings[key].val
  ELSE IF settings[key].type # "missing" /\ settings[key].type = "float64"
  THEN IntOfFloat(settings[key].val)
  ELSE defaultValue

\* The error of url.Parse for the URLs the factory is given: of them only
\* "://s", a URL with an empty scheme, is refused.
UrlParse(rawURL) ==
  IF rawURL = "://s" THEN "missing protocol scheme" ELSE NoErr

\* What a constructor or the factory returns: a client or nil, and an error;
\* or it panics. A client is written with the fields of all five adapters,
\* those an adapter does not have keeping their zero value.
Constructed_Connected(protocol, config) ==
  [panic |-> FALSE, err |-> <<>>,
   client |-> [protocol |-> protocol, config |-> config,
               connected |-> TRUE, mounted |-> FALSE, client |-> Handle,
               conn |-> Handle, session |-> Handle, share |-> Handle]]
Constructed(protocol, config) ==
  [panic |-> FALSE, err |-> <<>>,
   client |-> [protocol |-> protocol, config |-> config,
               connected |-> FALSE, mounted |-> FALSE, client |-> Nil,
               conn |-> Nil, session |-> Nil, share |-> Nil]]
Panicked == [panic |-> TRUE, err |-> <<>>, client |-> NilClient]

\* smb.NewSMBClient, ftp.NewFTPClient, local.NewLocalClient
NewSMBClient(config) == Constructed("smb", config)
NewFTPClient(config) == Constructed("ftp", config)
NewLocalClient(config) == Constructed("local", config)

\* A NewNFSClient that accepts an empty mount point.
NewNFSClient_NoCheck(config) == Constructed("nfs", config)

\* nfs.NewNFSClient
NewNFSClient(config) ==
  IF config.MountPoint = "" THEN Refused(<<"mount point is required">>)
  ELSE Constructed("nfs", config)

\* webdav.NewWebDAVClient: the error of url.Parse is dropped, and the nil
\* URL it comes with is written to when config.Path replaces the URL path.
NewWebDAVClient(config) ==
  IF config.Path # "" /\ config.Path # "/"
  THEN IF UrlParse(config.URL) # NoErr THEN Panicked
       ELSE Constructed("webdav", config)
  ELSE Constructed("webdav", config)

\* DefaultFactory.createNFSClient, of the Linux build and of the others.
createNFSClient(config, goos) ==
  IF goos # "linux"
  THEN Refused(<<"NFS protocol is only supported on Linux">>)
  ELSE IF NewNFSClient(
            [Host |-> GetStringSetting(config.Settings, "host", ""),
             Path |-> GetStringSetting(config.Settings, "path", ""),
             MountPoint |->
               GetStringSetting(config.Settings, "mount_point", ""),
             Options |->
               GetStringSetting(config.Settings, "options", "vers=3")]).err
            # <<>>
  THEN Refused(<<"failed to create NFS client: ">>
               \o NewNFSClient(
                    [Host |-> GetStringSetting(config.Settings, "host", ""),
                     Path |-> GetStringSetting(config.Settings, "path", ""),
                     MountPoint |->
                       GetStringSetting(config.Settings, "mount_point", ""),
                     Options |->
                       GetStringSetting(config.Settings, "options",
                                        "vers=3")]).err)
  ELSE NewNFSClient(
         [Host |-> GetStringSetting(config.Settings, "host", ""),
          Path |-> GetStringSetting(config.Settings, "path", ""),
          MountPoint |-> GetStringSetting(config.Settings, "mount_point", ""),
          Options |-> GetStringSetting(config.Settings, "options", "vers=3")])

\* A SupportedProtocols that lists the tags in alphabetical order.
SupportedProtocols_Sorted == <<"ftp", "local", "nfs", "smb", "webdav">>

\* DefaultFactory.SupportedProtocols
SupportedProtocols == <<"smb", "ftp", "nfs", "webdav", "local">>

\* DefaultFactory.CreateClient
CreateClient(config, goos) ==
  CASE config.Protocol = "smb" ->
         NewSMBClient(
           [Host |-> GetStringSetting(config.Settings, "host", ""),
            Port |-> GetIntSetting(config.Settings, "port", 445),
            Share |-> GetStringSetting(config.Settings, "share", ""),
            Username |-> GetStringSetting(config.Settings, "username", ""),
            Password |-> GetStringSetting(config.Settings, "password", ""),
            Domain |->
              GetStringSetting(config.Settings, "domain", "WORKGROUP")])
    [] config.Protocol = "ftp" ->
         NewFTPClient(
           [Host |-> GetStringSetting(config.Settings, "host", ""),
            Port |-> GetIntSetting(config.Settings, "port", 21),
            Username |-> GetStringSetting(config.Settings, "username", ""),
            Password |-> GetStringSetting(config.Settings, "password", ""),
            Path |-> GetStringSetting(config.Settings, "path", "")])
    [] config.Protocol = "nfs" -> createNFSClient(config, goos)
    [] config.Protocol = "webdav" ->
         NewWebDAVClient(
           [URL |-> GetStringSetting(config.Settings, "url", ""),
            Username |-> GetStringSetting(config.Settings, "username", ""),
            Password |-> GetStringSetting(config.Settings, "password", ""),
            Path |-> GetStringSetting(config.Settings, "path", "")])
    [] config.Protocol = "local" ->
         NewLocalClient(
           [BasePath |-> GetStringSetting(config.Settings, "base_path", "")])
    [] OTHER ->
         Refused(<<"unsupported protocol: ", config.Protocol>>)

(***************************************************************************)
(* The factory as a state machine: a descriptor is handed to CreateClient  *)
(* on a platform, the adapter it returns becomes the client under test,    *)
(* SupportedProtocols is asked before or after, and the tests of the ftp   *)
(* and smb packages write the fields of a constructed client directly.     *)
(***************************************************************************)
GOOS == {"linux", "darwin", "windows"}

\* The protocol tags of the descriptors: the five supported ones, and tags
\* the switch of CreateClient has no case for.
Tags == {"smb", "ftp", "nfs", "webdav", "local", "bogus", "SMB", ""}

SettingValues ==
  {Missing, StringSetting(""), StringSetting("/"), StringSetting("://s"),
   StringSetting("v"), IntSetting(8080), Float64Setting(80807),
   Float64Setting(-15), [type |-> "bool", val |-> "true"]}

\* The settings of a descriptor that names everything.
FullSettings ==
  [key \in SettingKeys |->
     CASE key = "port" -> IntSetting(2121)
       [] key = "url"  -> StringSetting("http://s/b")
       [] key = "path" -> StringSetting("/b")
       [] key = "mount_point" -> StringSetting("/m")
       [] OTHER -> StringSetting(key)]

\* The settings maps: one of the two above with one key given another value.
SettingsMaps ==
  { [settings EXCEPT ![key] = value] :
      settings \in {NoSettings, FullSettings},
      key \in SettingKeys, value \in SettingValues }

\* The characters of the strings the path setting is given as.
Chars(s) ==
  CASE s = ""     -> <<>>
    [] s = "/"    -> <<"/">>
    [] s = "/b"   -> BaseB
    [] s = "v"    -> <<"v">>
    [] s = "://s" -> <<":", "/", "/", "s">>

\* The client under test is the one the factory returned; config.Path is
\* the base path of an FTP client.
Adopt(out) ==
  /\ cfgPath' = IF out.client.protocol = "ftp"
                THEN Chars(out.client.config.Path) ELSE cfgPath
  /\ proto' = IF out.client = NilClient THEN "none" ELSE out.client.protocol
  /\ connected' = out.client.connected
  /\ mounted' = out.client.mounted
  /\ client' = out.client.client
  /\ conn' = out.client.conn
  /\ session' = out.client.session
  /\ share' = out.client.share
  /\ last' = [InitLast EXCEPT
                !.op = "CreateClient",
                !.err = IF out.err = <<>> THEN NoErr ELSE out.err[1]]
  /\ ret' = NoRet
  /\ calls' = <<>>

Factory_CreateClient(config) ==
  /\ ~factory.created
  /\ \E out \in {CreateClient(config, factory.goos)} :
       /\ factory' = [factory EXCEPT !.created = TRUE,
                                     !.descriptor = config, !.out = out]
       /\ Adopt(out)
  /\ UNCHANGED <<pathVars, multistatus, pending, procMounts, kernelMount,
                 openSessions, dirs, files>>

Factory_SupportedProtocols ==
  /\ factory.supported = <<>>
  /\ factory' = [factory EXCEPT !.supported = SupportedProtocols]
  /\ UNCHANGED <<pathVars, multistatus, pending, lifeVars>>

\* A test of package ftp writes the fields of a client it constructed; a
\* session that is not nil is one open session of the server.
FTP_FieldsSet(flag, handle) ==
  /\ proto = "ftp"
  /\ connected' = flag
  /\ client' = handle
  /\ openSessions' = IF handle # Nil THEN 1 ELSE 0
  /\ last' = [InitLast EXCEPT !.op = "set"]
  /\ UNCHANGED <<pathVars, pureVars, proto, cfgPath, mounted, conn, session,
                 share, procMounts, kernelMount, dirs, files, ret, calls>>

\* The fields of smb.Client, any of them nil or not; a transport that is
\* not nil is one open connection to the server.
SMB_FieldsSet(c, s, sh) ==
  /\ proto = "smb"
  /\ conn' = c
  /\ session' = s
  /\ share' = sh
  /\ openSessions' = IF c # Nil THEN 1 ELSE 0
  /\ last' = [InitLast EXCEPT !.op = "set"]
  /\ UNCHANGED <<pathVars, pureVars, proto, cfgPath, connected, mounted,
                 client, procMounts, kernelMount, dirs, files, ret, calls>>

InitFactory ==
  /\ reqPath = <<>>
  /\ reqBase = <<>>
  /\ resolver = "none"
  /\ resolved = <<>>
  /\ proto = "none"
  /\ cfgPath = BasePath
  /\ InitClient
  /\ procMounts = TRUE
  /\ kernelMount = FALSE
  /\ openSessions = 0
  /\ dirs = {<<>>, Node(BasePath)}
  /\ files = <<>>
  /\ last = InitLast
  /\ ret = NoRet
  /\ calls = <<>>
  /\ multistatus = NoListing
  /\ factory \in {[NoFactory EXCEPT !.goos = goos] : goos \in GOOS}
  /\ pending = NoPending

NextFactory ==
  \/ \E protocol \in Tags, settings \in SettingsMaps :
       Factory_CreateClient([Protocol |-> protocol, Settings |-> settings])
  \/ Factory_SupportedProtocols
  \/ \E flag \in BOOLEAN, handle \in {Nil, Handle} :
       FTP_FieldsSet(flag, handle)
  \/ \E c \in {Nil, Handle}, s \in {Nil, Handle}, sh \in {Nil, Handle} :
       SMB_FieldsSet(c, s, sh)
  \/ \E faults \in SUBSET SmbTeardown : SMB_Disconnect(faults)
  \/ \E fault \in {"none", "Dial", "Login"}, quitFails \in BOOLEAN :
       FTP_Connect(fault, quitFails)

SpecFactory == InitFactory /\ [][NextFactory]_vars

(***************************************************************************)
(* Two callers of one FTP or SMB client. The client has no lock: the        *)
(* ReadFile of the second caller is two steps, the connected check and the  *)
(* call on the handle, and the calls of the first caller (Connect,          *)
(* Disconnect, WriteFile) run between them.                                 *)
(***************************************************************************)
\* What the steps of the second caller leave alone.
raceFrame == <<pathVars, multistatus, factory, proto, cfgPath, clientVars,
               procMounts, kernelMount, openSessions>>

\* ftp.Client.ReadFile up to its check: `if !c.IsConnected()` was false.
FTP_ReadFile_Check(path) ==
  /\ proto = "ftp"
  /\ pending = NoPending
  /\ FTP_IsConnected
  /\ pending' = [op |-> "ReadFile", path |-> path]
  /\ UNCHANGED <<raceFrame, last, ret, calls, dirs, files>>

\* A ReadFile that holds a lock shared with Disconnect from its check on: it
\* finds the client disconnected instead of a cleared handle.
FTP_ReadFile_Use_Locked ==
  /\ proto = "ftp"
  /\ pending.op = "ReadFile"
  /\ pending' = NoPending
  /\ IF client = Nil THEN Reject("ReadFile", <<pending.path>>)
     ELSE \E fullPath \in {FTP_resolvePath(cfgPath, pending.path)} :
          \E rt \in {FtpRetr(Tree, fullPath)} :
          \E made \in {<<Call("Retr", fullPath)>>} :
          IF rt.err # NoErr
          THEN Return("ReadFile", <<pending.path>>,
                      "failed to retrieve FTP file", rt.err, NoRet, made, Tree)
          ELSE Return("ReadFile", <<pending.path>>, NoErr, NoErr,
                      [NoRet EXCEPT !.data = ContentOf(Tree, Node(fullPath))],
                      made, Tree)
  /\ UNCHANGED raceFrame

\* ftp.Client.ReadFile from `c.client.Retr(fullPath)` on. The read of
\* c.client races with the write of Disconnect: it sees nil, and the call
\* dereferences a nil *ServerConn, or it sees the handle it saw at the
\* check, and the call goes to the session that Disconnect has quit.
FTP_ReadFile_Use ==
  /\ proto = "ftp"
  /\ pending.op = "ReadFile"
  /\ pending' = NoPending
  /\ \E seen \in (IF client = Nil THEN {Nil, Handle} ELSE {client}) :
     \E fullPath \in {FTP_resolvePath(cfgPath, pending.path)} :
     \E rt \in {FtpRetr(Tree, fullPath)} :
     \E made \in {<<Call("Retr", fullPath)>>} :
     IF seen = Nil
     THEN Return("ReadFile", <<pending.path>>, "panic",
                 "nil pointer dereference", NoRet, <<>>, Tree)
     ELSE IF client = Nil
     THEN Return("ReadFile", <<pending.path>>, "failed to retrieve FTP file",
                 "use of closed network connection", NoRet, made, Tree)
     ELSE IF rt.err # NoErr
     THEN Return("ReadFile", <<pending.path>>, "failed to retrieve FTP file",
                 rt.err, NoRet, made, Tree)
     ELSE Return("ReadFile", <<pending.path>>, NoErr, NoErr,
                 [NoRet EXCEPT !.data = ContentOf(Tree, Node(fullPath))],
                 made, Tree)
  /\ UNCHANGED raceFrame

\* smb.Client.ReadFile up to its check.
SMB_ReadFile_Check(path) ==
  /\ proto = "smb"
  /\ pending = NoPending
  /\ SMB_IsConnected
  /\ pending' = [op |-> "ReadFile", path |-> path]
  /\ UNCHANGED <<raceFrame, last, ret, calls, dirs, files>>

\* smb.Client.ReadFile from `c.share.Open(path)` on: the read of c.share
\* races with the write of Disconnect as that of c.client does.
SMB_ReadFile_Use ==
  /\ proto = "smb"
  /\ pending.op = "ReadFile"
  /\ pending' = NoPending
  /\ \E seen \in (IF share = Nil THEN {Nil, Handle} ELSE {share}) :
     \E op \in {SmbOpen(Tree, SMB_path(pending.path))} :
     \E made \in {<<Call("Open", SMB_path(pending.path))>>} :
     IF seen = Nil
     THEN Return("ReadFile", <<pending.path>>, "panic",
                 "nil pointer dereference", NoRet, <<>>, Tree)
     ELSE IF share = Nil
     THEN Return("ReadFile", <<pending.path>>, "failed to open SMB file",
                 "use of closed network connection", NoRet, made, Tree)
     ELSE IF op.err # NoErr
     THEN Return("ReadFile", <<pending.path>>, "failed to open SMB file",
                 op.err, NoRet, made, Tree)
     ELSE Return("ReadFile", <<pending.path>>, NoErr, NoErr,
                 [NoRet EXCEPT !.data = ContentOf(Tree, SmbNode(pending.path))],
                 made, Tree)
  /\ UNCHANGED raceFrame

InitRace ==
  /\ reqPath = <<>>
  /\ reqBase = <<>>
  /\ resolver = "none"
  /\ resolved = <<>>
  /\ proto \in {"ftp", "smb"}
  /\ cfgPath = BasePath
  /\ InitClient
  /\ procMounts = TRUE
  /\ kernelMount = FALSE
  /\ openSessions = 0
  /\ dirs = {<<>>, Node(BasePath)}
  /\ files = <<>>
  /\ last = InitLast
  /\ ret = NoRet
  /\ calls = <<>>
  /\ multistatus = NoListing
  /\ factory = NoFactory
  /\ pending = NoPending

NextRace ==
  \/ \E fault \in {"none", "Dial", "Login"}, quitFails \in BOOLEAN :
       FTP_Connect(fault, quitFails)
  \/ \E fault \in BOOLEAN : FTP_Disconnect(fault)
  \/ \E path \in CallerPaths, data \in Data : FTP_WriteFile(path, data)
  \/ \E path \in CallerPaths : FTP_ReadFile_Check(path)
  \/ FTP_ReadFile_Use
  \/ \E fault \in {"none", "net.Dial", "Dialer.Dial"},
          faults \in SUBSET {"Logoff", "Close"} : SMB_Connect(fault, faults)
  \/ \E faults \in SUBSET SmbTeardown : SMB_Disconnect(faults)
  \/ \E path \in CallerPaths, data \in Data : SMB_WriteFile(path, data)
  \/ \E path \in CallerPaths : SMB_ReadFile_Check(path)
  \/ SMB_ReadFile_Use

SpecRace == InitRace /\ [][NextRace]_vars

(***************************************************************************)
(* Claims about the path sandboxer (checked under SpecPath).               *)
(***************************************************************************)
Sandboxers == {"local", "nfs", "webdav"}

\* The base as it appears at the head of a resolved path: the base directory
\* for Local and NFS, the base URL for WebDAV.
BaseOf(who, base) == IF who = "webdav" THEN URLString(base) ELSE base

\* C6: for the Local, NFS and WebDAV adapters and every relative caller path,
\* the resolved backend path or URL never contains the substring "..".
C6_NoDotDotInResolved ==
  resolver \in Sandboxers => ~Contains(resolved, DotDot)

\* C6 witness: a sandboxing resolver has run on a path whose normal form still
\* held "..", so that the second pass had something to remove.
C6_Witness ==
  /\ resolver \in Sandboxers
  /\ HasDotDotSegment(reqPath)
  /\ Contains(Clean(reqPath), DotDot)

\* C7: for the Local, NFS and WebDAV adapters the resolved path equals the base
\* or starts with the base followed by a separator; "../../../etc/passwd"
\* resolved against "/data" is "/data/etc/passwd".
C7_RootedAtBase ==
  resolver \in Sandboxers =>
    /\ \/ resolved = BaseOf(resolver, reqBase)
       \/ HasPrefix(resolved, BaseOf(resolver, reqBase) \o <<"/">>)
    /\ (reqPath = TraversalPath /\ reqBase = BaseData) =>
         /\ resolved = BaseOf(resolver, BaseData \o EtcPasswd)
         /\ resolved # BaseOf(resolver, EtcPasswd)

\* C7 witness: the traversal scenario has been resolved against "/data".
C7_Witness ==
  /\ resolver \in Sandboxers
  /\ reqPath = TraversalPath
  /\ reqBase = BaseData

(***************************************************************************)
(* Claims about the connection life cycle and the operations.              *)
(***************************************************************************)
\* client.Client.IsConnected of the client under test.
IsConnected ==
  CASE proto = "local"  -> Local_IsConnected
    [] proto = "nfs"    -> NFS_IsConnected
    [] proto = "ftp"    -> FTP_IsConnected
    [] proto = "smb"    -> SMB_IsConnected
    [] proto = "webdav" -> WebDAV_IsConnected

\* The file and directory operations of client.Client.
FileOps ==
  {"ReadFile", "WriteFile", "GetFileInfo", "ListDirectory", "FileExists",
   "CreateDirectory", "DeleteDirectory", "DeleteFile", "CopyFile"}

\* The node of the backend an operation of the client under test addresses
\* with a caller path.
Addressed(path) ==
  CASE proto = "local"  -> Node(Local_resolvePath(BasePath, path))
    [] proto = "nfs"    -> Node(NFS_resolvePath(BasePath, path))
    [] proto = "ftp"    -> Node(FTP_resolvePath(cfgPath, path))
    [] proto = "smb"    -> SmbNode(SMB_path(path))
    [] proto = "webdav" -> DavNode(WebDAV_resolveURL(cfgPath, path))

\* C1: on every adapter, a file or directory operation called while
\* IsConnected() is false returns the "not connected" error, makes no backend
\* call and leaves the adapter and the backend as they were.
C1_NotConnectedFailsFast ==
  [][ (~IsConnected /\ last'.op \in FileOps)
        => /\ last'.err = NotConnected
           /\ calls' = <<>>
           /\ UNCHANGED <<clientVars, backendVars, procMounts>> ]_vars

\* An operation was rejected on an adapter that had been connected before
\* (the backend holds a file it wrote).
C1_Witness ==
  /\ ~IsConnected
  /\ last.op \in FileOps
  /\ last.err = NotConnected
  /\ DOMAIN files # {}

\* C2: on every adapter, when Connect returns no error IsConnected() is true
\* right after it.
C2_ConnectedAfterConnect ==
  (last.op = "Connect" /\ last.err = NoErr) => IsConnected

\* C3 (as amended): a Connect that returns an error changes nothing in the
\* adapter: flag and handles are those of before the call, IsConnected()
\* answers as before, and no session or mount of the failed call remains.
C3_FailedConnectKeepsState ==
  [][ (last'.op = "Connect" /\ last'.err # NoErr)
        => /\ UNCHANGED <<clientVars, openSessions, kernelMount>>
           /\ IsConnected' = IsConnected ]_vars

\* A Connect failed on an adapter that holds the handle of an earlier one.
C3_Witness ==
  /\ last.op = "Connect"
  /\ last.err # NoErr
  /\ proto \in {"ftp", "smb"}
  /\ IsConnected

\* C3 (as stated): from any prior state, a Connect that returns an error
\* leaves the adapter Disconnected, with no connection handle.
C3_FailedConnectDisconnects ==
  (last.op = "Connect" /\ last.err # NoErr)
    => /\ ~IsConnected
       /\ client = Nil /\ conn = Nil /\ session = Nil /\ share = Nil

\* C4: on every adapter a Disconnect that follows a Disconnect (or the
\* construction of the client) takes no teardown step on the backend, changes
\* no state and returns no error.
C4_DisconnectIdempotent ==
  [][ (last.op \in {"new", "Disconnect"} /\ last'.op = "Disconnect")
        => /\ calls' = <<>>
           /\ last'.err = NoErr
           /\ UNCHANGED <<clientVars, backendVars>> ]_vars

\* C5: after any Disconnect, with or without a teardown error, IsConnected()
\* is false.
C5_DisconnectedAfterDisconnect ==
  last.op = "Disconnect" => ~IsConnected

\* C8: on all five adapters no path handed to the backend has a ".." element,
\* and nothing of the backend outside the base directory is reached.
C8_NoDotDotToBackend ==
  /\ \A i \in 1..Len(calls) : ~HasDotDotSegment(calls[i].arg)
  /\ \A k \in Nodes(Tree) : IsUnder(Node(BasePath), k) \/ IsUnder(k, Node(BasePath))

\* A failure of the backend other than not-found met the last call: access
\* was denied, the transport broke, or the status was 401, 403 or 500.
BackendFailure ==
  \/ last.cause \in {"EACCES", "ECONNRESET"}
  \/ ret.status \in {401, 403, 500}

\* C9: on every adapter, FileExists of a path that does not exist on the
\* backend (whose parent may not exist either) returns (false, nil).
C9_AbsentIsFalseNil ==
  ( /\ last.op = "FileExists"
    /\ last.err # NotConnected
    /\ ~BackendFailure
    /\ proto = "smb" => SmbInShare(last.args[1])
    /\ Addressed(last.args[1]) \notin Nodes(Tree) )
    => (last.err = NoErr /\ ~ret.exists)

\* C10: on every adapter, FileExists returns an error for every failure of
\* the backend other than not-found, and (false, nil) only for a path the
\* backend reports as not existing.
C10_FailureIsError ==
  (last.op = "FileExists" /\ last.err # NotConnected)
    => /\ BackendFailure => last.err # NoErr
       /\ (last.err = NoErr /\ ~ret.exists)
            => (~BackendFailure /\ Addressed(last.args[1]) \notin Nodes(Tree))

\* C11: write/read round trip. On every adapter, when WriteFile(p, B) has
\* returned no error, a ReadFile(p) called next returns no error and a
\* stream whose content is exactly B, whether or not p existed before.
C11_WriteReadRoundTrip ==
  [][ ( /\ last.op = "WriteFile"
        /\ last.err = NoErr
        /\ last'.op = "ReadFile"
        /\ last'.args[1] = last.args[1] )
      => /\ last'.err = NoErr
         /\ ret'.data = last.args[2]
         /\ files[Addressed(last.args[1])] = last.args[2] ]_vars

\* A read of d/f returned the one byte that a write stored there.
C11_Witness ==
  /\ last.op = "ReadFile"
  /\ last.err = NoErr
  /\ last.args[1] = <<"d", "/", "f">>
  /\ ret.data = <<"x">>
  /\ files[Addressed(last.args[1])] = <<"x">>

\* The nodes of the backend whose parent directory is node k.
DirectChildren(k) == {q \in Nodes(Tree) : q # <<>> /\ Parent(q) = k}

\* The base holds the directory d, the file d/f and nothing else.
OnlyFileInD ==
  /\ dirs = {<<>>, Node(BasePath), Node(BasePath) \o <<<<"d">>>>}
  /\ DOMAIN files = {Node(BasePath) \o <<<<"d">>, <<"f">>>>}

RECURSIVE MemberRecords(_, _)
MemberRecords(records, fullURL) ==
  IF records = <<>> THEN <<>>
  ELSE IF Head(records).href
            \in {TrimSuffixSlash(fullURL), TrimSuffixSlash(fullURL) \o <<"/">>}
  THEN MemberRecords(Tail(records), fullURL)
  ELSE <<Head(records)>> \o MemberRecords(Tail(records), fullURL)

\* Whether every marker of a record is well formed or absent.
WellFormed(r) ==
  /\ r.hrefShape = "ok"
  /\ r.closed
  /\ {r.nameShape, r.lenShape, r.modShape} \subseteq {"ok", "absent"}

\* C13: of a depth-1 multi-status body made of the record of the listed
\* collection (its href with or without a trailing separator) and N member
\* records, all well formed, ListDirectory returns exactly N entries, one per
\* member in order and none for the collection itself, the size of each
\* being its content-length marker (0 when absent) and its directory flag
\* being the presence of the collection marker.
C13_SelfFilteredChildrenListed ==
  ( /\ multistatus # NoListing
    /\ \A i \in 1..Len(multistatus.records) :
         WellFormed(multistatus.records[i]) )
    => /\ ~multistatus.out.panic
       /\ Len(multistatus.out.files)
            = Len(MemberRecords(multistatus.records, multistatus.fullURL))
       /\ \A i \in 1..Len(multistatus.out.files) :
            /\ multistatus.out.files[i].size
                 = (IF MemberRecords(multistatus.records,
                                     multistatus.fullURL)[i].lenShape = "ok"
                    THEN ParseInt(MemberRecords(multistatus.records,
                                  multistatus.fullURL)[i].len).value
                    ELSE 0)
            /\ multistatus.out.files[i].isDir
                 = MemberRecords(multistatus.records,
                                 multistatus.fullURL)[i].coll

\* The record with the malformed markers, in a body that has one.
HasProbe ==
  /\ multistatus # NoListing
  /\ Len(multistatus.records) = 3
  /\ multistatus.records[2].name = <<"p">>
Probe == multistatus.records[2]

\* What the parser returns for a body with a probe record when it does not
\* panic: a probe with a well-formed href and an end marker gives an entry
\* with the default of every property whose markers are not well formed (the
\* last element of the href, 0, the current time), and a probe without an
\* end marker, or whose href markers are missing, unterminated or reversed,
\* gives no entry; the member that follows is listed in both cases.
ProbeDefaults ==
  /\ (Probe.closed /\ Probe.hrefShape = "ok")
       => /\ Len(multistatus.out.files) = 2
          /\ Probe.nameShape # "ok"
               => multistatus.out.files[1].name = Base(Probe.href)
          /\ Probe.lenShape # "ok" => multistatus.out.files[1].size = 0
          /\ Probe.modShape # "ok"
               => multistatus.out.files[1].modTime = "time.Now()"
          /\ multistatus.out.files[2].size = 5
  /\ (~Probe.closed
        \/ Probe.hrefShape \in {"absent", "unterminated", "reversed"})
       => /\ Len(multistatus.out.files) = 1
          /\ multistatus.out.files[1].size = 5

\* C15: the multi-status parser is lenient and total. For every body the
\* parsing completes; a record with malformed or missing property markers
\* yields an entry with the default of that property, and a record with no
\* extractable href or no end marker is skipped.
C15_LenientTotalParsing ==
  HasProbe
    => /\ ~multistatus.out.panic
       /\ ProbeDefaults

\* C14: every path returned by GetFileInfo or ListDirectory is relative to
\* the caller's base, so that passing it back to the same adapter addresses
\* the entry it was returned for: the path of a GetFileInfo result addresses
\* the node that was asked about, and the path of every entry of a listing
\* addresses a direct child of the directory that was listed.
C14_ReturnedPathsAreCallerRelative ==
  /\ (last.op = "GetFileInfo" /\ last.err = NoErr)
       => \A e \in ret.info : Addressed(e.path) = Addressed(last.args[1])
  /\ (last.op = "ListDirectory" /\ last.err = NoErr)
       => \A e \in ret.entries :
            Addressed(e.path) \in DirectChildren(Addressed(last.args[1]))

(***************************************************************************)
(* Claims about the factory (checked under SpecFactory).                   *)
(***************************************************************************)
\* The error message has the phrase as one of its parts.
ErrContains(err, phrase) == \E i \in 1..Len(err) : err[i] = phrase

\* The tags of a list of protocols.
Listed(protocols) == {protocols[i] : i \in 1..Len(protocols)}

\* C16: CreateClient with a protocol tag outside {smb, ftp, nfs, webdav,
\* local} returns a nil client and an "unsupported protocol" error that names
\* the tag; SupportedProtocols returns exactly [smb, ftp, nfs, webdav, local]
\* in that order, whatever the platform and whether or not CreateClient was
\* called before.
C16_UnsupportedProtocol ==
  /\ ( /\ factory.created
       /\ factory.descriptor.Protocol
            \notin {"smb", "ftp", "nfs", "webdav", "local"} )
     => /\ ~factory.out.panic
        /\ factory.out.client = NilClient
        /\ factory.out.err =
             <<"unsupported protocol: ", factory.descriptor.Protocol>>
  /\ factory.supported # <<>>
     => factory.supported = <<"smb", "ftp", "nfs", "webdav", "local">>

C16_Witness ==
  /\ factory.created
  /\ factory.goos = "darwin"
  /\ factory.descriptor.Protocol = "bogus"
  /\ factory.out.client = NilClient
  /\ factory.out.err[2] = "bogus"
  /\ factory.supported = <<"smb", "ftp", "nfs", "webdav", "local">>

\* The descriptor handed to CreateClient asked for an NFS client, and its
\* mount point is a string that is not empty.
NfsAsked == factory.created /\ factory.descriptor.Protocol = "nfs"
MountPointGiven ==
  /\ factory.descriptor.Settings["mount_point"].type = "string"
  /\ factory.descriptor.Settings["mount_point"].val # ""

\* C17: CreateClient for "nfs" returns no client and an error whenever
\* construction cannot proceed: on Linux with an empty or missing mount point
\* the error contains "mount point is required" (and with a mount point a
\* client is returned without error); on another platform it returns the
\* platform error for every settings map; "nfs" stays in SupportedProtocols.
C17_NfsConstructionErrors ==
  /\ (NfsAsked /\ factory.goos # "linux")
     => /\ factory.out.client = NilClient
        /\ factory.out.err = <<"NFS protocol is only supported on Linux">>
  /\ (NfsAsked /\ factory.goos = "linux" /\ ~MountPointGiven)
     => /\ factory.out.client = NilClient
        /\ ErrContains(factory.out.err, "mount point is required")
  /\ (NfsAsked /\ factory.goos = "linux" /\ MountPointGiven)
     => /\ factory.out.client # NilClient
        /\ factory.out.err = <<>>
  /\ factory.supported # <<>> => "nfs" \in Listed(factory.supported)

C17_Witness ==
  /\ NfsAsked
  /\ factory.goos = "linux"
  /\ factory.descriptor.Settings["mount_point"] = StringSetting("")
  /\ factory.descriptor.Settings["host"] = StringSetting("host")
  /\ factory.out.client = NilClient
  /\ ErrContains(factory.out.err, "mount point is required")
  /\ "nfs" \in Listed(factory.supported)

\* C18: construction never connects: the adapter CreateClient returned is
\* Disconnected (IsConnected is false and it holds no handle), no backend
\* call has been made, and its GetProtocol is the tag of the descriptor, one
\* of the supported tags.
C18_ConstructionNeverConnects ==
  (last.op = "CreateClient" /\ factory.out.client # NilClient)
  => /\ factory.descriptor.Protocol \in Listed(SupportedProtocols)
     /\ proto = factory.descriptor.Protocol
     /\ ~IsConnected
     /\ ~connected /\ ~mounted
     /\ client = Nil /\ conn = Nil /\ session = Nil /\ share = Nil
     /\ calls = <<>>
     /\ openSessions = 0

C18_Witness ==
  /\ last.op = "CreateClient"
  /\ factory.descriptor.Protocol = "smb"
  /\ factory.descriptor.Settings["host"] = StringSetting("host")
  /\ proto = "smb"
  /\ ~IsConnected
  /\ calls = <<>>

\* What the coercion of a setting of the descriptor is to give: the string
\* if it is one, the int if it is one, the float64 without its fraction.
StringOr(key, default) ==
  IF factory.descriptor.Settings[key].type = "string"
  THEN factory.descriptor.Settings[key].val
  ELSE default
IntOr(key, default) ==
  CASE factory.descriptor.Settings[key].type = "int" ->
         factory.descriptor.Settings[key].val
    [] factory.descriptor.Settings[key] = Float64Setting(80807) -> 8080
    [] factory.descriptor.Settings[key] = Float64Setting(-15) -> -1
    [] OTHER -> default

\* C19: the factory coerces the settings map into the typed config with
\* defaults: a string setting that is missing or not a string takes its
\* default (domain "WORKGROUP", options "vers=3", otherwise empty); an
\* integer setting given as int is used as is, given as float64 is converted
\* to int, and otherwise takes its default (SMB port 445, FTP port 21).
C19_SettingsCoercion ==
  (factory.created /\ factory.out.client # NilClient)
  => /\ factory.out.client.protocol = "smb"
        => factory.out.client.config =
             [Host |-> StringOr("host", ""),
              Port |-> IntOr("port", 445),
              Share |-> StringOr("share", ""),
              Username |-> StringOr("username", ""),
              Password |-> StringOr("password", ""),
              Domain |-> StringOr("domain", "WORKGROUP")]
     /\ factory.out.client.protocol = "ftp"
        => factory.out.client.config =
             [Host |-> StringOr("host", ""),
              Port |-> IntOr("port", 21),
              Username |-> StringOr("username", ""),
              Password |-> StringOr("password", ""),
              Path |-> StringOr("path", "")]
     /\ factory.out.client.protocol = "nfs"
        => factory.out.client.config =
             [Host |-> StringOr("host", ""),
              Path |-> StringOr("path", ""),
              MountPoint |-> StringOr("mount_point", ""),
              Options |-> StringOr("options", "vers=3")]
     /\ factory.out.client.protocol = "webdav"
        => factory.out.client.config =
             [URL |-> StringOr("url", ""),
              Username |-> StringOr("username", ""),
              Password |-> StringOr("password", ""),
              Path |-> StringOr("path", "")]
     /\ factory.out.client.protocol = "local"
        => factory.out.client.config =
             [BasePath |-> StringOr("base_path", "")]

C19_Witness ==
  /\ factory.created
  /\ factory.out.client.protocol = "smb"
  /\ factory.descriptor.Settings["port"] = Float64Setting(80807)
  /\ factory.descriptor.Settings["domain"] = Missing
  /\ factory.out.client.config.Port = 8080
  /\ factory.out.client.config.Domain = "WORKGROUP"

\* C20: IsConnected reflects handle presence, not merely a flag: on FTP it is
\* false whenever the session handle is absent, even if the connected flag
\* is true; on SMB it is true only when the share, the session and the
\* transport handles are all present.
C20_IsConnectedReflectsHandles ==
  /\ (proto = "ftp" /\ client = Nil) => ~IsConnected
  /\ (proto = "smb" /\ IsConnected)
     => (share # Nil /\ session # Nil /\ conn # Nil)

C20_Witness ==
  /\ proto = "ftp"
  /\ connected
  /\ client = Nil
  /\ ~IsConnected

(***************************************************************************)
(* Claims about connection establishment and teardown.                     *)
(***************************************************************************)
\* The teardown steps an SMB Disconnect is to attempt, in order: one for
\* every handle the client holds.
SmbAttempted ==
  (IF share # Nil THEN <<"Umount">> ELSE <<>>)
  \o (IF session # Nil THEN <<"Logoff">> ELSE <<>>)
  \o (IF conn # Nil THEN <<"Close">> ELSE <<>>)

\* The message Disconnect wraps the failure of a teardown step in.
SmbFailure(step) ==
  CASE step = "Umount" -> "failed to unmount share"
    [] step = "Logoff" -> "failed to logoff session"
    [] step = "Close"  -> "failed to close connection"

\* The steps of a sequence that are in a set, in the order of the sequence.
RECURSIVE Among(_, _)
Among(steps, set) ==
  IF steps = <<>> THEN <<>>
  ELSE (IF steps[1] \in set THEN <<steps[1]>> ELSE <<>>)
       \o Among(Tail(steps), set)

\* C21: SMB Disconnect attempts unmount, logoff and close in that order, each
\* for every handle that is present and whatever failed before; afterwards
\* all three handles are absent, and the error is nil exactly when no
\* attempted step failed, otherwise one error with every individual failure.
C21_SmbDisconnectAttemptsAll ==
  [][ \A faults \in SUBSET SmbTeardown :
        SMB_Disconnect(faults)
        => /\ Len(calls') = Len(SmbAttempted)
           /\ \A i \in 1..Len(calls') : calls'[i].fn = SmbAttempted[i]
           /\ share' = Nil /\ session' = Nil /\ conn' = Nil
           /\ (last'.err = NoErr) <=> (Among(SmbAttempted, faults) = <<>>)
           /\ last'.err \in {NoErr, "errors closing SMB client"}
           /\ Len(last'.errs) = Len(Among(SmbAttempted, faults))
           /\ \A i \in 1..Len(last'.errs) :
                last'.errs[i] = SmbFailure(Among(SmbAttempted, faults)[i])
    ]_vars

C21_Witness ==
  /\ proto = "smb"
  /\ last.op = "Disconnect"
  /\ last.err = "errors closing SMB client"
  /\ last.errs = <<"failed to logoff session", "failed to close connection">>
  /\ Len(calls) = 2
  /\ share = Nil /\ session = Nil /\ conn = Nil

\* The names of the backend calls of the last operation, in order.
Fns(log) == [i \in 1..Len(log) |-> log[i].fn]

\* C22: SMB Connect runs dial, session negotiation and share mount in that
\* order; a failed negotiation closes the transport, a failed mount logs the
\* session off and then closes the transport; the error names the failing
\* step also when the teardown fails, and the failed Connect stores none of
\* the handles it opened: the fields and the open sessions are as before.
C22_SmbConnectTearsDown ==
  [][ (proto = "smb" /\ last'.op = "Connect")
      => /\ last'.err = "failed to connect to SMB server"
            => Fns(calls') = <<"net.Dial">>
         /\ last'.err = "failed to create SMB session"
            => Fns(calls') = <<"net.Dial", "Dialer.Dial", "Close">>
         /\ last'.err = "failed to mount SMB share"
            => Fns(calls') =
                 <<"net.Dial", "Dialer.Dial", "Mount", "Logoff", "Close">>
         /\ last'.err = NoErr
            => /\ Fns(calls') = <<"net.Dial", "Dialer.Dial", "Mount">>
               /\ conn' # Nil /\ session' # Nil /\ share' # Nil
         /\ last'.err \in {NoErr, "failed to connect to SMB server",
                            "failed to create SMB session",
                            "failed to mount SMB share"}
         /\ last'.dropped # <<>> => last'.err # NoErr
         /\ last'.err # NoErr
            => UNCHANGED <<conn, session, share, openSessions>>
    ]_vars

C22_Witness ==
  /\ proto = "smb"
  /\ last.op = "Connect"
  /\ last.err = "failed to mount SMB share"
  /\ last.dropped = <<"Logoff", "Close">>
  /\ Fns(calls) = <<"net.Dial", "Dialer.Dial", "Mount", "Logoff", "Close">>
  /\ conn = Nil /\ session = Nil /\ share = Nil
  /\ openSessions = 0

\* C22 as stated: after every failed SMB Connect the adapter stores none of
\* the three handles.
C22_FailedConnectStoresNoHandle ==
  (proto = "smb" /\ last.op = "Connect" /\ last.err # NoErr)
  => (conn = Nil /\ session = Nil /\ share = Nil)

\* C23: FTP Connect runs dial, login and, only when a base directory is
\* configured, change-directory, in that order; a failed login or
\* change-directory quits the session before returning; the error names the
\* failing step; the handle and the connected flag are set only after every
\* step succeeded, and a failed Connect leaves them and the open sessions as
\* they were.
C23_FtpConnectSteps ==
  [][ (proto = "ftp" /\ last'.op = "Connect")
      => /\ last'.err = "failed to connect to FTP server"
            => Fns(calls') = <<"goftp.Dial">>
         /\ last'.err = "failed to login to FTP server"
            => Fns(calls') = <<"goftp.Dial", "Login", "Quit">>
         /\ last'.err = "failed to change to base directory"
            => /\ cfgPath # <<>>
               /\ Fns(calls') = <<"goftp.Dial", "Login", "ChangeDir", "Quit">>
               /\ calls'[3].arg = cfgPath
         /\ last'.err = NoErr
            => /\ Fns(calls') = IF cfgPath = <<>>
                                THEN <<"goftp.Dial", "Login">>
                                ELSE <<"goftp.Dial", "Login", "ChangeDir">>
               /\ client' # Nil /\ connected'
         /\ last'.err \in {NoErr, "failed to connect to FTP server",
                            "failed to login to FTP server",
                            "failed to change to base directory"}
         /\ last'.dropped # <<>> => last'.err # NoErr
         /\ last'.err # NoErr
            => UNCHANGED <<client, connected, openSessions>>
    ]_vars

C23_Witness ==
  /\ proto = "ftp"
  /\ last.op = "Connect"
  /\ last.err = "failed to change to base directory"
  /\ last.dropped = <<"Quit">>
  /\ cfgPath = <<"v">>
  /\ Fns(calls) = <<"goftp.Dial", "Login", "ChangeDir", "Quit">>
  /\ client = Nil /\ ~connected
  /\ openSessions = 0

\* C23 as stated: after every failed FTP Connect the adapter keeps no session
\* handle and is Disconnected.
C23_FailedConnectKeepsNoSession ==
  (proto = "ftp" /\ last.op = "Connect" /\ last.err # NoErr)
  => (client = Nil /\ ~FTP_IsConnected)

\* C24: WebDAV Connect issues one PROPFIND probe of the base URL and succeeds,
\* the adapter becoming Connected, exactly when a response arrived whose
\* status is a 2xx code or 207; otherwise it is a connect failure.
C24_ConnectAcceptsAny2xx ==
  (proto = "webdav" /\ last.op = "Connect")
  => /\ Fns(calls) = <<"PROPFIND">>
     /\ (last.err = NoErr)
        <=> (last.cause = NoErr /\ (Is2xx(ret.status) \/ ret.status = 207))
     /\ last.err = NoErr => WebDAV_IsConnected

\* C25: an NFS Connect that returns success has ensured that the mount-point
\* directory exists and then invoked the mount syscall on the mount point;
\* it never reports success on a mount point where no NFS mount is present.
C25_NfsConnectMounts ==
  (proto = "nfs" /\ last.op = "Connect" /\ last.err = NoErr)
  => /\ Fns(calls) = <<"os.MkdirAll", "syscall.Mount">>
     /\ calls[2].arg = BasePath
     /\ Node(BasePath) \in dirs
     /\ kernelMount

(***************************************************************************)
(* Claims about the operations on a connected and a disconnected client.   *)
(***************************************************************************)
\* The probe TestConnection is to make on a connected client.
TestProbe ==
  CASE proto \in {"local", "nfs"} -> Call("os.Stat", BasePath)
    [] proto = "smb"    -> Call("ReadDir", <<".">>)
    [] proto = "ftp"    -> Call("CurrentDir", <<>>)
    [] proto = "webdav" -> Call("PROPFIND", URLString(cfgPath))

\* C26: TestConnection on a Disconnected adapter returns "not connected"
\* without a backend call; on a Connected adapter it makes one probe (stat of
\* the base, root listing, current-directory query, the probe of Connect) and
\* returns its result; either way, and whether the probe succeeds or fails,
\* the connection state, the handles and the backend are left unchanged.
C26_TestConnectionProbes ==
  [][ last'.op = "TestConnection"
      => /\ ~IsConnected => (last'.err = NotConnected /\ calls' = <<>>)
         /\ IsConnected
            => /\ calls' = <<TestProbe>>
               /\ last'.err # NotConnected
               /\ proto # "webdav" => last'.err = last'.cause
               /\ proto = "webdav"
                  => ((last'.err = NoErr)
                      <=> (last'.cause = NoErr /\ ret'.status \in {200, 207}))
         /\ IsConnected' = IsConnected
         /\ UNCHANGED <<clientVars, backendVars>>
    ]_vars

C26_Witness ==
  /\ last.op = "TestConnection"
  /\ proto = "webdav"
  /\ last.err = "WebDAV server returned status"
  /\ ret.status = 401
  /\ calls = <<TestProbe>>
  /\ IsConnected

\* The node itself and the nodes on the way to it from the root.
OnTheWay(k) == Ancestors(k) \cup {k}

\* C27: on the Local and NFS adapters CreateDirectory(p) creates p together
\* with every missing intermediate directory (it succeeds unless a file is in
\* the way) and succeeds, changing nothing, when p is a directory already;
\* DeleteDirectory(p) removes p and everything beneath it and nothing else;
\* a FileExists(p) that follows a successful DeleteDirectory(p) is false.
C27_MkdirAllAndRemoveAll ==
  [][ (proto \in {"local", "nfs"} /\ IsConnected)
      => /\ last'.op = "CreateDirectory"
            => /\ Addressed(last'.args[1]) \in dirs
                  => (last'.err = NoErr /\ UNCHANGED <<dirs, files>>)
               /\ (OnTheWay(Addressed(last'.args[1])) \cap DOMAIN files = {})
                  <=> (last'.err = NoErr)
               /\ last'.err = NoErr
                  => /\ dirs' = dirs \cup OnTheWay(Addressed(last'.args[1]))
                     /\ files' = files
               /\ last'.err # NoErr => UNCHANGED <<dirs, files>>
         /\ (last'.op = "DeleteDirectory" /\ last'.err = NoErr)
            => /\ dirs' = {q \in dirs : ~IsUnder(q, Addressed(last'.args[1]))}
               /\ DOMAIN files' =
                    {q \in DOMAIN files :
                       ~IsUnder(q, Addressed(last'.args[1]))}
               /\ \A q \in DOMAIN files' : files'[q] = files[q]
         /\ ( /\ last.op = "DeleteDirectory" /\ last.err = NoErr
              /\ last'.op = "FileExists" /\ last'.args[1] = last.args[1] )
            => ~ret'.exists
    ]_vars

C27_Witness ==
  /\ proto = "local"
  /\ last.op = "CreateDirectory"
  /\ last.err = NoErr
  /\ last.args[1] = <<"d", "/", "f">>
  /\ Fns(calls) = <<"os.MkdirAll">>
  /\ dirs = OnTheWay(Addressed(<<"d", "/", "f">>))

\* The client holds nothing: no flag is set and no handle is kept.
HoldsNothing ==
  /\ ~connected /\ ~mounted
  /\ client = Nil /\ conn = Nil /\ session = Nil /\ share = Nil

\* C28: while IsConnected() is false, each of the nine file and directory
\* operations and TestConnection returns the "not connected" error without a
\* backend call or any effect; GetProtocol and GetConfig return the tag and
\* the configuration, without error or effect; Disconnect never returns "not
\* connected", and on a client that holds nothing returns nil without effect.
C28_DisconnectedOperations ==
  [][ ~IsConnected
      => /\ last'.op \in FileOps \cup {"TestConnection"}
            => /\ last'.err = NotConnected
               /\ calls' = <<>>
               /\ UNCHANGED <<clientVars, backendVars>>
         /\ last'.op \in {"GetProtocol", "GetConfig"}
            => /\ last'.err = NoErr
               /\ last'.op = "GetProtocol" => ret'.value = proto
               /\ calls' = <<>>
               /\ UNCHANGED <<clientVars, backendVars>>
         /\ last'.op = "Disconnect"
            => /\ last'.err # NotConnected
               /\ ~IsConnected'
               /\ HoldsNothing
                  => /\ last'.err = NoErr
                     /\ calls' = <<>>
                     /\ UNCHANGED <<clientVars, backendVars>>
    ]_vars

C28_Witness ==
  /\ ~IsConnected
  /\ HoldsNothing
  /\ last.op = "GetProtocol"
  /\ last.err = NoErr
  /\ ret.value = "smb"
  /\ calls = <<>>

\* C28 as stated: while IsConnected() is false every operation other than
\* Connect returns the "not connected" error and has no effect.
C28_AllButConnectRejected ==
  [][ ( /\ ~IsConnected
        /\ last'.op \in FileOps \cup {"TestConnection", "Disconnect",
                                      "GetProtocol", "GetConfig"} )
      => /\ last'.err = NotConnected
         /\ calls' = <<>>
         /\ UNCHANGED <<clientVars, backendVars>>
    ]_vars

\* C29: no construction panics: for every descriptor CreateClient returns
\* normally, with a client or with an error; in particular it does for a
\* WebDAV descriptor whose URL cannot be parsed.
C29_ConstructionNeverPanics ==
  factory.created
  => /\ ~factory.out.panic
     /\ (factory.out.client = NilClient) <=> (factory.out.err # <<>>)

\* The backend calls that create a directory.
MkdirFns == {"os.MkdirAll", "MakeDir", "Mkdir", "MkdirAll", "MKCOL"}

\* C30: a WriteFile of a connected Local, FTP or NFS client leaves every
\* parent directory of the target in place, or returns an error after the
\* directory creation as the only backend call it made (the failure to create
\* the parents is what the caller gets); a directory-creation call, where one
\* is made, comes before every other call; a WriteFile of an SMB or WebDAV
\* client makes no directory-creation call.
C30_WriteFileCreatesParents ==
  [][ (last'.op = "WriteFile" /\ IsConnected)
      => /\ proto \in {"local", "ftp", "nfs"}
            => /\ \/ OnTheWay(Parent(Addressed(last'.args[1]))) \subseteq dirs'
                  \/ /\ last'.err # NoErr
                     /\ Len(calls') = 1
                     /\ calls'[1].fn \in MkdirFns
               /\ \A i \in 2..Len(calls') : calls'[i].fn \notin MkdirFns
         /\ proto \in {"smb", "webdav"}
            => \A i \in 1..Len(calls') : calls'[i].fn \notin MkdirFns
    ]_vars

\* The operations of the WebDAV client that succeed on one status, and those
\* that succeed on every status of the 2xx class.
DavReadOps == {"ReadFile", "GetFileInfo"}
DavWriteOps ==
  {"WriteFile", "CreateDirectory", "DeleteFile", "DeleteDirectory", "CopyFile"}

\* Whether the status is the success of the operation.
DavSuccess(op, status) ==
  IF op \in DavReadOps THEN status = 200
  ELSE IF op = "ListDirectory" THEN status = 207
  ELSE status \in 200..299

C32_ValuesBetweenMarkers ==
  ( /\ multistatus # NoListing
    /\ \A i \in 1..Len(multistatus.records) :
         WellFormed(multistatus.records[i])
    /\ ~multistatus.out.panic
    /\ Len(multistatus.out.files)
         = Len(MemberRecords(multistatus.records, multistatus.fullURL)) )
  => \A i \in 1..Len(multistatus.out.files) :
       /\ multistatus.out.files[i].name
            = (IF MemberRecords(multistatus.records,
                                multistatus.fullURL)[i].nameShape = "ok"
               THEN MemberRecords(multistatus.records,
                                  multistatus.fullURL)[i].name
               ELSE Base(MemberRecords(multistatus.records,
                                       multistatus.fullURL)[i].href))
       /\ multistatus.out.files[i].modTime
            = (IF MemberRecords(multistatus.records,
                                multistatus.fullURL)[i].modShape = "ok"
               THEN "2006-01-02 15:04:05 GMT"
               ELSE "time.Now()")

\* C33: from one state of a client to the next, IsConnected() goes from false
\* to true only by a Connect that returned no error and from true to false
\* only by a Disconnect; nothing else that happens changes it.
C33_OnlyLifecycleCallsChangeIt ==
  [][ /\ (~IsConnected /\ IsConnected')
           => (last'.op = "Connect" /\ last'.err = NoErr)
      /\ (IsConnected /\ ~IsConnected') => last'.op = "Disconnect"
    ]_vars

\* C34: every entry ListDirectory makes of a multi-status body has a size
\* that is not negative: a content-length text that is absent, does not
\* parse or denotes a negative number gives the size 0.
C34_SizesNotNegative ==
  (multistatus # NoListing /\ ~multistatus.out.panic)
    => \A i \in 1..Len(multistatus.out.files) :
         multistatus.out.files[i].size >= 0

\* C35: the transport, session and share handles of an SMB client are all
\* present or all absent in every state that Connect and Disconnect calls,
\* succeeding or failing at any step, lead to.
C35_SmbHandlesTogether ==
  proto = "smb"
    => \/ (conn = Nil /\ session = Nil /\ share = Nil)
       \/ (conn # Nil /\ session # Nil /\ share # Nil)

\* A Connect on a connected client that failed at the session negotiation:
\* the three handles of the earlier Connect are all still held.
C35_Witness ==
  /\ proto = "smb"
  /\ last.op = "Connect"
  /\ last.err = "failed to create SMB session"
  /\ conn # Nil /\ session # Nil /\ share # Nil

\* C36: the sessions an FTP or SMB client has opened on its server and not
\* closed are the one whose handle it holds, or none when it holds no
\* handle; after a Disconnect none is open.
C36_NoSessionLeaked ==
  /\ proto = "ftp" => openSessions = (IF client # Nil THEN 1 ELSE 0)
  /\ proto = "smb" => openSessions = (IF conn # Nil THEN 1 ELSE 0)
  /\ (proto \in {"ftp", "smb"} /\ last.op = "Disconnect") => openSessions = 0

\* C37: for a caller path without a ".." element, the sandboxer of the
\* Local, NFS and WebDAV adapters resolves to the base joined with the
\* lexically normalized path, names that merely contain two dots included.
C37_PlainPathsUnaltered ==
  (resolver \in Sandboxers /\ ~HasDotDotSegment(reqPath))
    => resolved = BaseOf(resolver, Join(reqBase, Clean(reqPath)))

\* C38: a CopyFile(src, dst) of a Local, NFS or SMB client that returns no
\* error leaves dst with the content src had before the call and src with
\* the content it had, whatever the two paths are, equal ones included.
C38_CopyKeepsContent ==
  [][ ( /\ proto \in {"local", "nfs", "smb"}
        /\ last'.op = "CopyFile"
        /\ last'.err = NoErr )
      => /\ Addressed(last'.args[1]) \in DOMAIN files
         /\ Addressed(last'.args[1]) \in DOMAIN files'
         /\ Addressed(last'.args[2]) \in DOMAIN files'
         /\ files'[Addressed(last'.args[2])] = files[Addressed(last'.args[1])]
         /\ files'[Addressed(last'.args[1])] = files[Addressed(last'.args[1])]
    ]_vars

\* C39: a CopyFile of a Local or NFS client that fails because the source
\* does not exist leaves the directories and the files of the backend as
\* they were.
C39_FailedCopyChangesNothing ==
  [][ ( /\ proto \in {"local", "nfs"}
        /\ last'.op = "CopyFile"
        /\ last'.err = "failed to open source file"
        /\ Addressed(last'.args[1]) \notin dirs \cup DOMAIN files )
      => UNCHANGED <<dirs, files>>
    ]_vars

(***************************************************************************)
(* Claims about two callers of one client (checked under SpecRace).        *)
(***************************************************************************)
\* The handle a ReadFile of the client under test makes its call on.
ReadHandle == IF proto = "ftp" THEN client ELSE share

\* C40: the check of a ReadFile on an FTP or SMB client and its call on the
\* handle are not one atomic step: a ReadFile that has passed its check and
\* comes to its call after a Disconnect has cleared the handle is not
\* rejected as "not connected"; it dereferences the nil handle or calls the
\* session that was closed, returns no data and leaves the backend alone.
C40_CheckThenUseNotAtomic ==
  [][ (pending.op = "ReadFile" /\ pending'.op = "none" /\ ReadHandle = Nil)
      => /\ last'.op = "ReadFile"
         /\ last'.args = <<pending.path>>
         /\ last'.err # NotConnected
         /\ last'.cause \in {"nil pointer dereference",
                             "use of closed network connection"}
         /\ ret' = NoRet
         /\ UNCHANGED <<dirs, files>>
    ]_vars

\* The interleaving of the claim has happened: the ReadFile of a file that
\* exists passed its check, Disconnect ran, and the call was made on the
\* handle that Disconnect had set to nil.
C40_Witness ==
  /\ proto = "ftp"
  /\ last.op = "ReadFile"
  /\ last.err = "panic"
  /\ last.cause = "nil pointer dereference"
  /\ client = Nil
  /\ ~connected
  /\ Addressed(last.args[1]) \in DOMAIN files

====
